---- MODULE Spec2Model ----
(***************************************************************************)
(* PersonaPulse AI (src/App.tsx, services/geminiService, types): the       *)
(* survey / persona / simulation / analysis state machine of the App       *)
(* component.  Every React state cell is a variable; every handler is an   *)
(* action; an async handler is cut at each await into the part that        *)
(* issues the generation call and the continuation that consumes its       *)
(* outcome.  The generation service is the environment: its outcome is     *)
(* drawn from a small set when the call returns.                           *)
(***************************************************************************)
EXTENDS Integers, Sequences, FiniteSets, TLC

\* ------------------------------------------------------------------ bounds
\* Number of fresh persona identifiers generateId can hand out.
MaxIds == 2
\* Number of runSimulation closures that can be alive at the same time.
MaxRuns == 2
\* Number of handleGeneratePersonas requests that can be pending at once.
MaxPendingGen == 2
\* Number of options a question can be given.
MaxOptions == 3

\* --------------------------------------------------------------- strings
\* Answer and option strings are sequences of characters, so that parseInt
\* and toString are computed character by character.
Digits == <<"0", "1", "2", "3", "4", "5", "6", "7", "8", "9">>

IsDigit(c) == \E d \in 1..10 : Digits[d] = c

DigitVal(c) == (CHOOSE d \in 1..10 : Digits[d] = c) - 1

NaN == [nan |-> TRUE, val |-> 0]

RECURSIVE SkipSpaces(_)
SkipSpaces(s) ==
    IF s # <<>> /\ Head(s) = " " THEN SkipSpaces(Tail(s)) ELSE s

RECURSIVE ParseDigits(_, _, _)
\* acc: value of the digits read so far; any: whether a digit was read.
ParseDigits(s, acc, any) ==
    IF s # <<>> /\ IsDigit(Head(s))
    THEN ParseDigits(Tail(s), acc * 10 + DigitVal(Head(s)), TRUE)
    ELSE IF any THEN [nan |-> FALSE, val |-> acc] ELSE NaN

\* JavaScript parseInt(string) in radix 10: leading blanks skipped, an
\* optional sign, then the longest run of digits; NaN when there is none.
ParseInt(str) ==
    LET s == SkipSpaces(str)
    IN  IF s # <<>> /\ Head(s) = "-"
        THEN LET r == ParseDigits(Tail(s), 0, FALSE)
             IN  IF r.nan THEN NaN ELSE [nan |-> FALSE, val |-> 0 - r.val]
        ELSE IF s # <<>> /\ Head(s) = "+"
        THEN ParseDigits(Tail(s), 0, FALSE)
        ELSE ParseDigits(s, 0, FALSE)

RECURSIVE NatToString(_)
NatToString(n) ==
    IF n < 10 THEN <<Digits[n + 1]>>
    ELSE NatToString(n \div 10) \o <<Digits[(n % 10) + 1]>>

\* Number.prototype.toString() of an integer.
NumToString(n) == IF n < 0 THEN <<"-">> \o NatToString(0 - n) ELSE NatToString(n)

\* ----------------------------------------------------------------- types
\* answer: string | number (types.ts SurveyResponse.answers[].answer).
StrAns(s) == [isNum |-> FALSE, num |-> 0, str |-> s]
NumAns(n) == [isNum |-> TRUE, num |-> n, str |-> <<>>]

\* answer.toString()
AnswerToString(a) == IF a.isNum THEN NumToString(a.num) ELSE a.str

\* A question; hasOptions = FALSE is `options: undefined`.  ownOptions is
\* whether the object has a property named options at all: the questions
\* of the initial survey have none.
Question(id, type, hasOptions, options) ==
    [id |-> id, text |-> "t", type |-> type, hasOptions |-> hasOptions,
     ownOptions |-> hasOptions, options |-> options]

\* useState<Survey> initial value.
InitialSurvey ==
    [title |-> "New Product Concept Survey",
     description |-> "Validating the need",
     questions |-> << Question("q1", "RATING_SCALE", FALSE, <<>>),
                      Question("q2", "OPEN_ENDED", FALSE, <<>>) >>]

NoSurvey == [title |-> "", description |-> "", questions |-> <<>>]

\* null for editingPersonaId / editForm.
NullId == 0
NullPersona == [id |-> NullId, name |-> ""]

\* The editable content of a persona (name, age, occupation, traits,
\* painPoints) is one field here.
PersonaNames == {"gen", "edit"}

Persona(id, name) == [id |-> id, name |-> name]

SeqIds(s) == {s[k].id : k \in 1..Len(s)}

\* Array.prototype.find on questions by id: index of the first match, 0 if none.
FindQuestion(qs, id) ==
    IF \E k \in 1..Len(qs) : qs[k].id = id
    THEN CHOOSE k \in 1..Len(qs) : qs[k].id = id /\ \A j \in 1..(k - 1) : qs[j].id # id
    ELSE 0

\* ------------------------------------------------- generation service
\* What one ai.models.generateContent call can do: throw (network / service
\* error), return no or empty text, return text that is not the expected
\* JSON, or return text that parses ("ok", with the parsed data).
FailureKinds == {"throw", "notext", "badjson"}

\* Raw answer texts the service returns for a question while a run is
\* simulated: a rating for a RATING_SCALE question, free text otherwise.
RawAnswersFor(q) ==
    IF q.type = "RATING_SCALE" THEN {<<"5">>} ELSE {<<"x">>}

RECURSIVE AnswerPayloads(_)
\* parsed.answers: one {questionId, answer} per question, answer a string.
AnswerPayloads(qs) ==
    IF qs = <<>> THEN {<<>>}
    ELSE {<<[questionId |-> Head(qs).id, answer |-> a]>> \o rest :
             a \in RawAnswersFor(Head(qs)), rest \in AnswerPayloads(Tail(qs))}

SimOutcomes(sv) ==
    {[kind |-> k, answers |-> <<>>] : k \in FailureKinds}
    \cup {[kind |-> "ok", answers |-> a] : a \in AnswerPayloads(sv.questions)}

\* Personas the service returns for one generatePersonas call: n of them.
GenOutcomes ==
    {[kind |-> k, n |-> 0] : k \in FailureKinds}
    \cup {[kind |-> "ok", n |-> n] : n \in 0..MaxIds}

AnalysisOutcomes == {[kind |-> k] : k \in FailureKinds \cup {"ok"}}

\* ------------------------------------------------------ geminiService
\* Mutant: the isNaN test is missing, the failed parse is stored as it is.
SanitizeAnswer_NaNKept(sv, a) ==
    LET k == FindQuestion(sv.questions, a.questionId)
    IN  IF k # 0 /\ sv.questions[k].type = "RATING_SCALE"
        THEN [questionId |-> a.questionId, answer |-> NumAns(ParseInt(a.answer).val)]
        ELSE [questionId |-> a.questionId, answer |-> StrAns(a.answer)]

\* sanitizedAnswers: a RATING_SCALE answer becomes parseInt(answer), 3 when
\* that is NaN; any other answer is passed through.
SanitizeAnswer(sv, a) ==
    LET k == FindQuestion(sv.questions, a.questionId)
    IN  IF k # 0 /\ sv.questions[k].type = "RATING_SCALE"
        THEN LET val == ParseInt(a.answer)
             IN  [questionId |-> a.questionId,
                  answer |-> NumAns(IF val.nan THEN 3 ELSE val.val)]
        ELSE [questionId |-> a.questionId, answer |-> StrAns(a.answer)]

\* simulateSurveyResponse(persona, survey): the promise's settlement for a
\* given service outcome.  Every failure inside the try block is caught and
\* becomes a resolved response with no answers.
simulateSurveyResponse(persona, sv, outcome) ==
    IF outcome.kind = "ok"
    THEN [rejected |-> FALSE,
          resp |-> [personaId |-> persona.id,
                    answers |-> [k \in 1..Len(outcome.answers) |->
                                    SanitizeAnswer(sv, outcome.answers[k])]]]
    ELSE [rejected |-> FALSE,
          resp |-> [personaId |-> persona.id, answers |-> <<>>]]

\* generatePersonas(description, count): missing text resolves to [], a
\* thrown error or unparsable text rejects.
generatePersonas(outcome) ==
    IF outcome.kind = "ok" THEN [rejected |-> FALSE, n |-> outcome.n]
    ELSE IF outcome.kind = "notext" THEN [rejected |-> FALSE, n |-> 0]
    ELSE [rejected |-> TRUE, n |-> 0]

\* Mutant: a failure is swallowed and a fallback result returned.
analyzeResults_Fallback(outcome) == [rejected |-> FALSE, result |-> "report"]

\* analyzeResults(survey, responses, personas): missing text throws, so every
\* failure rejects.
analyzeResults(outcome) ==
    IF outcome.kind = "ok" THEN [rejected |-> FALSE, result |-> "report"]
    ELSE [rejected |-> TRUE, result |-> "null"]

\* ------------------------------------------------------------ persistence
\* JSON.stringify of a question: the members of the object in order, each
\* with a string or an array value; a member whose value is undefined is
\* left out.
JsonStringifyQuestion(q) ==
    <<[key |-> "id", str |-> q.id, arr |-> <<>>],
      [key |-> "text", str |-> q.text, arr |-> <<>>],
      [key |-> "type", str |-> q.type, arr |-> <<>>]>>
    \o (IF q.ownOptions /\ q.hasOptions
        THEN <<[key |-> "options", str |-> "", arr |-> q.options]>> ELSE <<>>)

JsonStringify(sv) ==
    [title |-> sv.title, description |-> sv.description,
     questions |-> [k \in 1..Len(sv.questions) |-> JsonStringifyQuestion(sv.questions[k])]]

HasMember(doc, key) == \E k \in 1..Len(doc) : doc[k].key = key

Member(doc, key) == doc[CHOOSE k \in 1..Len(doc) : doc[k].key = key]

\* Mutant: the options member is not read back.
JsonParseQuestion_NoOptions(doc) ==
    [id |-> Member(doc, "id").str, text |-> Member(doc, "text").str,
     type |-> Member(doc, "type").str,
     hasOptions |-> FALSE, ownOptions |-> FALSE, options |-> <<>>]

\* JSON.parse of a question: an object with the members of the text.
JsonParseQuestion(doc) ==
    [id |-> Member(doc, "id").str, text |-> Member(doc, "text").str,
     type |-> Member(doc, "type").str,
     hasOptions |-> HasMember(doc, "options"),
     ownOptions |-> HasMember(doc, "options"),
     options |-> IF HasMember(doc, "options") THEN Member(doc, "options").arr ELSE <<>>]

JsonParse(json) ==
    [title |-> json.title, description |-> json.description,
     questions |-> [k \in 1..Len(json.questions) |-> JsonParseQuestion(json.questions[k])]]

\* JSON.parse(JSON.stringify(survey))
JsonClone(sv) == JsonParse(JsonStringify(sv))

\* JSON.stringify of a persona and JSON.parse of it.
JsonStringifyPersona(p) ==
    <<[key |-> "id", str |-> p.id, arr |-> <<>>],
      [key |-> "name", str |-> p.name, arr |-> <<>>]>>

JsonParsePersona(doc) == Persona(Member(doc, "id").str, Member(doc, "name").str)

\* JSON.stringify of a template and JSON.parse of it.
JsonStringifyTemplate(t) ==
    [id |-> t.id, name |-> t.name, survey |-> JsonStringify(t.survey)]

JsonParseTemplate(doc) ==
    [id |-> doc.id, name |-> doc.name, survey |-> JsonParse(doc.survey)]

\* What localStorage.getItem returns: null when the item was never written,
\* or the text stored: the empty text, a text JSON.parse throws on, or the
\* text of a JSON array, kept as the list of its elements.
NoItem == [kind |-> "null", doc |-> <<>>]
EmptyText == [kind |-> "empty", doc |-> <<>>]
CorruptText == [kind |-> "corrupt", doc |-> <<>>]
JsonText(doc) == [kind |-> "json", doc |-> doc]

\* if (loaded): null and the empty text are falsy.
Truthy(item) == item.kind \notin {"null", "empty"}

\* JSON.parse(text) throws.
ParseThrows(item) == item.kind = "corrupt"

\* JSON.stringify(newList) for the library and for the templates.
LibraryText(list) == JsonText([k \in 1..Len(list) |-> JsonStringifyPersona(list[k])])
TemplatesText(list) == JsonText([k \in 1..Len(list) |-> JsonStringifyTemplate(list[k])])

\* JSON.parse(loaded) for the library and for the templates.
ParseLibrary(item) == [k \in 1..Len(item.doc) |-> JsonParsePersona(item.doc[k])]
ParseTemplates(item) == [k \in 1..Len(item.doc) |-> JsonParseTemplate(item.doc[k])]

\* ------------------------------------------------------------------ state
VARIABLES
    activeTab,           \* 'SURVEY' | 'LIBRARY'
    step,                \* 'SETUP' | 'PERSONAS' | 'SIMULATION' | 'RESULTS'
    isLoading,
    savedPersonas,       \* the library
    survey,
    activeParticipants,  \* the active panel
    editingPersonaId,
    editForm,
    responses,
    simulationProgress,  \* a percentage, kept as a reduced fraction <<num, den>>
    analysis,            \* "null" or the AnalysisResult
    alertMsg,            \* the dialog window.alert showed in the last step, "" if none
    runs,                \* the live runSimulation closures, by slot
    genPending,          \* handleGeneratePersonas calls awaiting generatePersonas
    nextId,              \* number of identifiers generateId has handed out
    savedTemplates,      \* the saved survey templates
    isSaveModalOpen,
    isLoadModalOpen,
    templateNameInput,
    localStorage,        \* the items 'personaPulse_library' and 'personaPulse_templates'
    mounted              \* the effect of the first render has run

vars == <<activeTab, step, isLoading, savedPersonas, survey, activeParticipants,
          editingPersonaId, editForm, responses, simulationProgress, analysis,
          alertMsg, runs, genPending, nextId, savedTemplates, isSaveModalOpen,
          isLoadModalOpen, templateNameInput, localStorage, mounted>>

RunIds == 1..MaxRuns

\* A slot holding no closure.
IdleRun ==
    [pc |-> "idle", i |-> 0, panel |-> <<>>, survey |-> NoSurvey,
     newResponses |-> <<>>, log |-> <<>>, progress |-> <<>>]

RECURSIVE GCD(_, _)
GCD(a, b) == IF b = 0 THEN a ELSE GCD(b, a % b)

\* The number (num / den) * 100 as a reduced fraction.
Percent(num, den) ==
    LET g == GCD(num * 100, den) IN <<(num * 100) \div g, den \div g>>

ZeroPercent == <<0, 1>>

GenFailedMsg == "Failed to generate personas. Please check your API key or try again."
AlreadySavedMsg == "This specific persona instance is already in your library."
NoPersonaMsg == "Please add at least one persona to run the simulation."
AnalysisFailedMsg == "Simulation finished, but analysis failed."
ResetMsg == "Ready for a new run! Your survey questions and participants are preserved."

Init ==
    /\ activeTab = "SURVEY"
    /\ step = "SETUP"
    /\ isLoading = FALSE
    /\ savedPersonas = <<>>
    /\ survey = InitialSurvey
    /\ activeParticipants = <<>>
    /\ editingPersonaId = NullId
    /\ editForm = NullPersona
    /\ responses = <<>>
    /\ simulationProgress = ZeroPercent
    /\ analysis = "null"
    /\ alertMsg = ""
    /\ runs = [r \in RunIds |-> IdleRun]
    /\ genPending = 0
    /\ nextId = 0
    /\ savedTemplates = <<>>
    /\ isSaveModalOpen = FALSE
    /\ isLoadModalOpen = FALSE
    /\ templateNameInput = ""
    /\ localStorage = [library |-> NoItem, templates |-> NoItem]
    /\ mounted = TRUE

\* ---------------------------------------------------------------- startup
\* Mutant: one try block around both reads.
useEffect_OneTry ==
    /\ ~mounted
    /\ LET loadedPersonas == localStorage.library
           loadedTemplates == localStorage.templates
       IN  /\ savedPersonas' =
                  IF Truthy(loadedPersonas) /\ ~ParseThrows(loadedPersonas)
                  THEN ParseLibrary(loadedPersonas) ELSE savedPersonas
           /\ savedTemplates' =
                  IF Truthy(loadedPersonas) /\ ParseThrows(loadedPersonas)
                  THEN savedTemplates
                  ELSE IF Truthy(loadedTemplates) /\ ~ParseThrows(loadedTemplates)
                  THEN ParseTemplates(loadedTemplates) ELSE savedTemplates
    /\ mounted' = TRUE
    /\ alertMsg' = ""
    /\ UNCHANGED <<activeTab, step, isLoading, survey, activeParticipants,
                   editingPersonaId, editForm, responses, simulationProgress,
                   analysis, runs, genPending, nextId, isSaveModalOpen,
                   isLoadModalOpen, templateNameInput, localStorage>>

\* The effect of the first render: each of the two items is read and, when
\* it is there, parsed inside a try block of its own; a parse that throws is
\* logged and leaves the collection as it is.
useEffect ==
    /\ ~mounted
    /\ LET loadedPersonas == localStorage.library
           loadedTemplates == localStorage.templates
       IN  /\ savedPersonas' =
                  IF Truthy(loadedPersonas) /\ ~ParseThrows(loadedPersonas)
                  THEN ParseLibrary(loadedPersonas) ELSE savedPersonas
           /\ savedTemplates' =
                  IF Truthy(loadedTemplates) /\ ~ParseThrows(loadedTemplates)
                  THEN ParseTemplates(loadedTemplates) ELSE savedTemplates
    /\ mounted' = TRUE
    /\ alertMsg' = ""
    /\ UNCHANGED <<activeTab, step, isLoading, survey, activeParticipants,
                   editingPersonaId, editForm, responses, simulationProgress,
                   analysis, runs, genPending, nextId, isSaveModalOpen,
                   isLoadModalOpen, templateNameInput, localStorage>>

\* ------------------------------------------------------------- rendering
\* What the render function shows decides which handlers the operator can
\* invoke.
SurveyBuilderShown == activeTab = "SURVEY" /\ step = "SETUP"
\* Mutant: the persona builder stays on display after the PERSONAS step.
PersonaBuilderShown_AnyStep == activeTab = "SURVEY" /\ step # "SETUP"

PersonaBuilderShown == activeTab = "SURVEY" /\ step = "PERSONAS"
ResultsShown == activeTab = "SURVEY" /\ step = "RESULTS" /\ analysis # "null"
LibraryShown == activeTab = "LIBRARY"

\* renderPersonaCard(p, isLibrary, isEditing) is rendered for p.
CardShown(p, isLibrary) ==
    IF isLibrary
    THEN LibraryShown /\ \E k \in 1..Len(savedPersonas) : savedPersonas[k] = p
    ELSE PersonaBuilderShown /\ \E k \in 1..Len(activeParticipants) : activeParticipants[k] = p

\* The card is rendered as the edit form.
CardEditing(p) == editingPersonaId = p.id /\ editForm # NullPersona

\* ------------------------------------------------------------ navigation
setActiveTab(tab) ==
    /\ tab # activeTab
    /\ activeTab' = tab
    /\ alertMsg' = ""
    /\ UNCHANGED <<step, isLoading, savedPersonas, survey, activeParticipants,
                   editingPersonaId, editForm, responses, simulationProgress,
                   analysis, runs, genPending, nextId,
                   savedTemplates, isSaveModalOpen, isLoadModalOpen,
                   templateNameInput,
                   localStorage, mounted>>

\* "Next: Define Audience"
NextDefineAudience ==
    /\ SurveyBuilderShown
    /\ step' = "PERSONAS"
    /\ alertMsg' = ""
    /\ UNCHANGED <<activeTab, isLoading, savedPersonas, survey, activeParticipants,
                   editingPersonaId, editForm, responses, simulationProgress,
                   analysis, runs, genPending, nextId,
                   savedTemplates, isSaveModalOpen, isLoadModalOpen,
                   templateNameInput,
                   localStorage, mounted>>

\* --------------------------------------------------------- survey builder
removeQuestion(id) ==
    /\ SurveyBuilderShown
    /\ \E k \in 1..Len(survey.questions) : survey.questions[k].id = id
    /\ survey' = [survey EXCEPT !.questions = SelectSeq(@, LAMBDA q : q.id # id)]
    /\ alertMsg' = ""
    /\ UNCHANGED <<activeTab, step, isLoading, savedPersonas, activeParticipants,
                   editingPersonaId, editForm, responses, simulationProgress,
                   analysis, runs, genPending, nextId,
                   savedTemplates, isSaveModalOpen, isLoadModalOpen,
                   templateNameInput,
                   localStorage, mounted>>

\* ------------------------------------------------------ persona generation
\* generateId(): a fresh identifier.
generateId(k) == nextId + k

\* handleGeneratePersonas up to its await.  The button is disabled while
\* isLoading; descBlank is whether targetDef.description.trim() is empty.
handleGeneratePersonas(descBlank) ==
    /\ PersonaBuilderShown
    /\ ~isLoading
    /\ genPending < MaxPendingGen
    /\ IF descBlank
       THEN UNCHANGED <<isLoading, genPending>>
       ELSE /\ isLoading' = TRUE
            /\ genPending' = genPending + 1
    /\ alertMsg' = ""
    /\ UNCHANGED <<activeTab, step, savedPersonas, survey, activeParticipants,
                   editingPersonaId, editForm, responses, simulationProgress,
                   analysis, runs, nextId,
                   savedTemplates, isSaveModalOpen, isLoadModalOpen,
                   templateNameInput,
                   localStorage, mounted>>

\* handleGeneratePersonas from the return of generatePersonas to its end.
GeneratePersonasReturns(outcome) ==
    /\ genPending > 0
    /\ nextId + outcome.n <= MaxIds
    /\ LET res == generatePersonas(outcome)
           uniquePersonas == [k \in 1..res.n |-> Persona(generateId(k), "gen")]
       IN  IF res.rejected
           THEN /\ alertMsg' = GenFailedMsg
                /\ UNCHANGED <<activeParticipants, nextId>>
           ELSE /\ activeParticipants' = activeParticipants \o uniquePersonas
                /\ nextId' = nextId + res.n
                /\ alertMsg' = ""
    /\ isLoading' = FALSE
    /\ genPending' = genPending - 1
    /\ UNCHANGED <<activeTab, step, savedPersonas, survey, editingPersonaId,
                   editForm, responses, simulationProgress, analysis, runs,
                   savedTemplates, isSaveModalOpen, isLoadModalOpen,
                   templateNameInput,
                   localStorage, mounted>>

\* ---------------------------------------------------------------- library
\* savePersonaLibrary(newList)
savePersonaLibrary(newList) ==
    /\ savedPersonas' = newList
    /\ localStorage' = [localStorage EXCEPT !.library = LibraryText(newList)]

addToLibrary(persona) ==
    /\ CardShown(persona, FALSE)
    /\ ~CardEditing(persona)
    /\ ~(persona.id \in SeqIds(savedPersonas))      \* the button shows when !isSaved
    /\ IF persona.id \in SeqIds(savedPersonas)
       THEN /\ alertMsg' = AlreadySavedMsg
            /\ UNCHANGED <<savedPersonas, localStorage>>
       ELSE /\ savePersonaLibrary(Append(savedPersonas, persona))
            /\ alertMsg' = ""
    /\ UNCHANGED <<activeTab, step, isLoading, survey, activeParticipants,
                   editingPersonaId, editForm, responses, simulationProgress,
                   analysis, runs, genPending, nextId,
                   savedTemplates, isSaveModalOpen, isLoadModalOpen,
                   templateNameInput,
                   mounted>>

removeFromLibrary(persona) ==
    /\ CardShown(persona, TRUE)
    /\ ~CardEditing(persona)
    /\ savePersonaLibrary(SelectSeq(savedPersonas, LAMBDA p : p.id # persona.id))
    /\ alertMsg' = ""
    /\ UNCHANGED <<activeTab, step, isLoading, survey, activeParticipants,
                   editingPersonaId, editForm, responses, simulationProgress,
                   analysis, runs, genPending, nextId,
                   savedTemplates, isSaveModalOpen, isLoadModalOpen,
                   templateNameInput,
                   mounted>>

\* Mutant: a persona is never taken to be in the panel already.
IsAdded_Never(persona) == FALSE

\* activeParticipants.some(p => p.id === persona.id)
IsAdded(persona) == persona.id \in SeqIds(activeParticipants)

importFromLibrary(persona) ==
    /\ PersonaBuilderShown
    /\ \E k \in 1..Len(savedPersonas) : savedPersonas[k] = persona
    /\ ~IsAdded(persona)                            \* the button is disabled when isAdded
    /\ IF IsAdded(persona)
       THEN UNCHANGED activeParticipants
       ELSE activeParticipants' = Append(activeParticipants, persona)
    /\ alertMsg' = ""
    /\ UNCHANGED <<activeTab, step, isLoading, savedPersonas, survey,
                   editingPersonaId, editForm, responses, simulationProgress,
                   analysis, runs, genPending, nextId,
                   savedTemplates, isSaveModalOpen, isLoadModalOpen,
                   templateNameInput,
                   localStorage, mounted>>

\* ---------------------------------------------------------------- editing
startEditing(persona, isLibrary) ==
    /\ CardShown(persona, isLibrary)
    /\ ~CardEditing(persona)
    /\ editingPersonaId' = persona.id
    /\ editForm' = persona
    /\ alertMsg' = ""
    /\ UNCHANGED <<activeTab, step, isLoading, savedPersonas, survey,
                   activeParticipants, responses, simulationProgress, analysis,
                   runs, genPending, nextId,
                   savedTemplates, isSaveModalOpen, isLoadModalOpen,
                   templateNameInput,
                   localStorage, mounted>>

\* A card of the shown collection is rendered as the edit form.
EditFormShown(isLibrary) ==
    \E k \in 1..Len(IF isLibrary THEN savedPersonas ELSE activeParticipants) :
        LET p == (IF isLibrary THEN savedPersonas ELSE activeParticipants)[k]
        IN  CardShown(p, isLibrary) /\ CardEditing(p)

\* onChange of an input of the edit form.
setEditForm(name) ==
    /\ \E isLibrary \in BOOLEAN : EditFormShown(isLibrary)
    /\ name # editForm.name
    /\ editForm' = [editForm EXCEPT !.name = name]
    /\ alertMsg' = ""
    /\ UNCHANGED <<activeTab, step, isLoading, savedPersonas, survey,
                   activeParticipants, editingPersonaId, responses,
                   simulationProgress, analysis, runs, genPending, nextId,
                   savedTemplates, isSaveModalOpen, isLoadModalOpen,
                   templateNameInput,
                   localStorage, mounted>>

\* Mutant: the edit is written to the panel and to the library.
saveEdit_Both(isLibrary) ==
    /\ EditFormShown(isLibrary)
    /\ savePersonaLibrary([k \in 1..Len(savedPersonas) |->
                              IF savedPersonas[k].id = editForm.id
                              THEN editForm ELSE savedPersonas[k]])
    /\ activeParticipants' = [k \in 1..Len(activeParticipants) |->
                                 IF activeParticipants[k].id = editForm.id
                                 THEN editForm ELSE activeParticipants[k]]
    /\ editingPersonaId' = NullId
    /\ editForm' = NullPersona
    /\ alertMsg' = ""
    /\ UNCHANGED <<activeTab, step, isLoading, survey, responses,
                   simulationProgress, analysis, runs, genPending, nextId,
                   savedTemplates, isSaveModalOpen, isLoadModalOpen,
                   templateNameInput,
                   mounted>>

\* A persona is a value: every handler builds new objects ({...persona},
\* {...editForm, name}, map, filter, [...list, persona]) and none assigns to
\* a field of an object a collection holds.
saveEdit(isLibrary) ==
    /\ EditFormShown(isLibrary)
    /\ IF editForm = NullPersona
       THEN UNCHANGED <<savedPersonas, localStorage, activeParticipants,
                        editingPersonaId, editForm>>
       ELSE /\ IF isLibrary
               THEN /\ savePersonaLibrary(
                          [k \in 1..Len(savedPersonas) |->
                              IF savedPersonas[k].id = editForm.id
                              THEN editForm ELSE savedPersonas[k]])
                    /\ UNCHANGED activeParticipants
               ELSE /\ activeParticipants' =
                          [k \in 1..Len(activeParticipants) |->
                              IF activeParticipants[k].id = editForm.id
                              THEN editForm ELSE activeParticipants[k]]
                    /\ UNCHANGED <<savedPersonas, localStorage>>
            /\ editingPersonaId' = NullId
            /\ editForm' = NullPersona
    /\ alertMsg' = ""
    /\ UNCHANGED <<activeTab, step, isLoading, survey, responses,
                   simulationProgress, analysis, runs, genPending, nextId,
                   savedTemplates, isSaveModalOpen, isLoadModalOpen,
                   templateNameInput,
                   mounted>>

cancelEdit ==
    /\ \E isLibrary \in BOOLEAN : EditFormShown(isLibrary)
    /\ editingPersonaId' = NullId
    /\ editForm' = NullPersona
    /\ alertMsg' = ""
    /\ UNCHANGED <<activeTab, step, isLoading, savedPersonas, survey,
                   activeParticipants, responses, simulationProgress, analysis,
                   runs, genPending, nextId,
                   savedTemplates, isSaveModalOpen, isLoadModalOpen,
                   templateNameInput,
                   localStorage, mounted>>

deleteActivePersona(persona) ==
    /\ CardShown(persona, FALSE)
    /\ ~CardEditing(persona)
    /\ activeParticipants' = SelectSeq(activeParticipants, LAMBDA p : p.id # persona.id)
    /\ alertMsg' = ""
    /\ UNCHANGED <<activeTab, step, isLoading, savedPersonas, survey,
                   editingPersonaId, editForm, responses, simulationProgress,
                   analysis, runs, genPending, nextId,
                   savedTemplates, isSaveModalOpen, isLoadModalOpen,
                   templateNameInput,
                   localStorage, mounted>>

\* -------------------------------------------------------------- simulation
\* Mutant: the button is rendered whatever the step.
RunSimulationButtonShown_AnyStep == activeTab = "SURVEY" /\ Len(activeParticipants) > 0

\* The "Run Simulation" button is rendered.
RunSimulationButtonShown == PersonaBuilderShown /\ Len(activeParticipants) > 0

\* Mutant: the loop index is not used.
PersonaAt_First(panel, i) == panel[1]

\* const persona = activeParticipants[i]  (i counts from 0)
PersonaAt(panel, i) == panel[i + 1]

\* Mutant: the loop is left after the first persona.
LoopContinues_Never(i, n) == FALSE

\* The loop condition after i++: i < activeParticipants.length.
LoopContinues(i, n) == i + 1 < n

\* Mutant: the response replaces the list instead of extending it.
AppendResponse_Overwrite(prev, resp) == <<resp>>

\* Mutant: the response is put in front of the list.
AppendResponse_InFront(prev, resp) == <<resp>> \o prev

\* Mutant: the response is not put on the list on display.
AppendResponse_Dropped(prev, resp) == prev

\* setResponses(prev => [...prev, resp])
AppendResponse(prev, resp) == Append(prev, resp)

\* Mutant: the progress is computed from i instead of i + 1.
ProgressAfter_OffByOne(i, n) == Percent(i, n)

\* ((i + 1) / activeParticipants.length) * 100
ProgressAfter(i, n) == Percent(i + 1, n)

\* The entry the log of a run gets when a generation call is issued.
CallIssued(kind, personaId) ==
    [kind |-> kind, personaId |-> personaId, outcome |-> "pending", answers |-> <<>>]

\* The last entry of the log, settled with the outcome of the call.
CallSettled(log, outcome) ==
    [log EXCEPT ![Len(log)] =
        [@ EXCEPT !.outcome = IF outcome.kind = "ok" THEN "ok" ELSE "failed",
                  !.answers = IF outcome.kind = "ok" THEN outcome.answers ELSE <<>>]]

FreeSlot == CHOOSE r \in RunIds : runs[r].pc = "idle" /\ \A q \in 1..(r - 1) : runs[q].pc # "idle"

\* Mutant: the progress is reset before the panel is looked at.
runSimulationCalled_ResetsProgress ==
    /\ \E r \in RunIds : runs[r].pc = "idle"
    /\ IF Len(activeParticipants) = 0
       THEN /\ alertMsg' = NoPersonaMsg
            /\ simulationProgress' = ZeroPercent
            /\ UNCHANGED <<step, responses, runs>>
       ELSE /\ step' = "SIMULATION"
            /\ responses' = <<>>
            /\ simulationProgress' = ZeroPercent
            /\ runs' = [runs EXCEPT ![FreeSlot] =
                          [pc |-> "simCall", i |-> 0,
                           panel |-> activeParticipants, survey |-> survey,
                           newResponses |-> <<>>,
                           log |-> <<CallIssued("simulate", PersonaAt(activeParticipants, 0).id)>>,
                           progress |-> <<>>]]
            /\ alertMsg' = ""
    /\ UNCHANGED <<activeTab, isLoading, savedPersonas, survey, activeParticipants,
                   editingPersonaId, editForm, analysis, genPending, nextId,
                   savedTemplates, isSaveModalOpen, isLoadModalOpen,
                   templateNameInput,
                   localStorage, mounted>>

\* runSimulation up to its first await: the closure captures the panel and
\* the survey of the render it was created in.
runSimulationCalled ==
    /\ \E r \in RunIds : runs[r].pc = "idle"
    /\ IF Len(activeParticipants) = 0
       THEN /\ alertMsg' = NoPersonaMsg
            /\ UNCHANGED <<step, responses, simulationProgress, runs>>
       ELSE /\ step' = "SIMULATION"
            /\ responses' = <<>>
            /\ simulationProgress' = ZeroPercent
            /\ runs' = [runs EXCEPT ![FreeSlot] =
                          [pc |-> "simCall", i |-> 0,
                           panel |-> activeParticipants, survey |-> survey,
                           newResponses |-> <<>>,
                           log |-> <<CallIssued("simulate", PersonaAt(activeParticipants, 0).id)>>,
                           progress |-> <<>>]]
            /\ alertMsg' = ""
    /\ UNCHANGED <<activeTab, isLoading, savedPersonas, survey, activeParticipants,
                   editingPersonaId, editForm, analysis, genPending, nextId,
                   savedTemplates, isSaveModalOpen, isLoadModalOpen,
                   templateNameInput,
                   localStorage, mounted>>

\* The click on "Run Simulation".
runSimulation ==
    /\ RunSimulationButtonShown
    /\ runSimulationCalled

\* One iteration of the loop of runSimulation, from the return of
\* simulateSurveyResponse for persona i: the response is kept unless the
\* promise rejected, the progress is set, and either the next call is
\* issued or the loop ends and the analysis call is issued (or, with no
\* response, the step goes back to PERSONAS).
SimulationReturns(r, outcome) ==
    /\ runs[r].pc = "simCall"
    /\ LET run == runs[r]
           n == Len(run.panel)
           persona == PersonaAt(run.panel, run.i)
           res == simulateSurveyResponse(persona, run.survey, outcome)
           newResponses == IF res.rejected THEN run.newResponses
                           ELSE Append(run.newResponses, res.resp)
           progress == ProgressAfter(run.i, n)
           settled == [run EXCEPT !.i = run.i + 1,
                                  !.newResponses = newResponses,
                                  !.log = CallSettled(run.log, outcome),
                                  !.progress = Append(run.progress, progress)]
       IN  /\ responses' = IF res.rejected THEN responses ELSE AppendResponse(responses, res.resp)
           /\ simulationProgress' = progress
           /\ IF LoopContinues(run.i, n)
              THEN /\ runs' = [runs EXCEPT ![r] =
                                 [settled EXCEPT !.log =
                                     Append(@, CallIssued("simulate",
                                                          PersonaAt(run.panel, run.i + 1).id))]]
                   /\ UNCHANGED <<step, isLoading>>
              ELSE IF Len(newResponses) > 0
              THEN /\ isLoading' = TRUE
                   /\ runs' = [runs EXCEPT ![r] =
                                 [settled EXCEPT !.pc = "analyzeCall",
                                                 !.log = Append(@, CallIssued("analyze", NullId))]]
                   /\ UNCHANGED step
              ELSE /\ step' = "PERSONAS"
                   /\ isLoading' = FALSE
                   /\ runs' = [runs EXCEPT ![r] = IdleRun]
    /\ alertMsg' = ""
    /\ UNCHANGED <<activeTab, savedPersonas, survey, activeParticipants,
                   editingPersonaId, editForm, analysis, genPending, nextId,
                   savedTemplates, isSaveModalOpen, isLoadModalOpen,
                   templateNameInput,
                   localStorage, mounted>>

\* runSimulation from the return of analyzeResults to its end.
AnalysisReturns(r, outcome) ==
    /\ runs[r].pc = "analyzeCall"
    /\ LET res == analyzeResults(outcome)
       IN  IF res.rejected
           THEN /\ alertMsg' = AnalysisFailedMsg
                /\ UNCHANGED <<analysis, step>>
           ELSE /\ analysis' = res.result
                /\ step' = "RESULTS"
                /\ alertMsg' = ""
    /\ isLoading' = FALSE
    /\ runs' = [runs EXCEPT ![r] = IdleRun]
    /\ UNCHANGED <<activeTab, savedPersonas, survey, activeParticipants,
                   editingPersonaId, editForm, responses, simulationProgress,
                   genPending, nextId,
                   savedTemplates, isSaveModalOpen, isLoadModalOpen,
                   templateNameInput,
                   localStorage, mounted>>

\* Mutant: the reset only goes back to the first step.
StartNewSurvey_KeepsResults ==
    /\ ResultsShown
    /\ step' = "SETUP"
    /\ alertMsg' = ResetMsg
    /\ UNCHANGED <<activeTab, isLoading, savedPersonas, survey,
                   activeParticipants, editingPersonaId, editForm, responses,
                   simulationProgress, analysis, runs, genPending, nextId,
                   savedTemplates, isSaveModalOpen, isLoadModalOpen,
                   templateNameInput,
                   localStorage, mounted>>

\* Mutant: the reset also empties the panel.
StartNewSurvey_ClearsPanel ==
    /\ ResultsShown
    /\ step' = "SETUP"
    /\ responses' = <<>>
    /\ analysis' = "null"
    /\ activeParticipants' = <<>>
    /\ alertMsg' = ResetMsg
    /\ UNCHANGED <<activeTab, isLoading, savedPersonas, survey,
                   editingPersonaId, editForm, simulationProgress, runs,
                   genPending, nextId, savedTemplates, isSaveModalOpen,
                   isLoadModalOpen, templateNameInput,
                   localStorage, mounted>>

\* Mutant: the reset goes to the PERSONAS step.
StartNewSurvey_ToPersonas ==
    /\ ResultsShown
    /\ step' = "PERSONAS"
    /\ responses' = <<>>
    /\ analysis' = "null"
    /\ alertMsg' = ResetMsg
    /\ UNCHANGED <<activeTab, isLoading, savedPersonas, survey, activeParticipants,
                   editingPersonaId, editForm, simulationProgress, runs,
                   genPending, nextId,
                   savedTemplates, isSaveModalOpen, isLoadModalOpen,
                   templateNameInput,
                   localStorage, mounted>>

\* "Start New Survey (Reset Results)"
StartNewSurvey ==
    /\ ResultsShown
    /\ step' = "SETUP"
    /\ responses' = <<>>
    /\ analysis' = "null"
    /\ alertMsg' = ResetMsg
    /\ UNCHANGED <<activeTab, isLoading, savedPersonas, survey, activeParticipants,
                   editingPersonaId, editForm, simulationProgress, runs,
                   genPending, nextId,
                   savedTemplates, isSaveModalOpen, isLoadModalOpen,
                   templateNameInput,
                   localStorage, mounted>>

\* ------------------------------------------------- survey builder inputs
\* `Option ${n}`; an option is compared, never read character by character.
OptionLabel(n) == <<"Option " \o ToString(n)>>

\* The identifier `q${generateId()}`; it is never one of the literal
\* identifiers 'q1' and 'q2' of the initial survey.
NewQuestionId == "q#" \o ToString(generateId(1))

\* Mutant: a choice is created with an empty list of options.
addQuestion_EmptyOptions(type) ==
    /\ SurveyBuilderShown
    /\ nextId < MaxIds
    /\ LET newQ == [id |-> NewQuestionId, text |-> "", type |-> type,
                    hasOptions |-> type = "MULTIPLE_CHOICE", ownOptions |-> TRUE,
                    options |-> IF type = "MULTIPLE_CHOICE"
                                THEN <<>> ELSE <<>>]
       IN  survey' = [survey EXCEPT !.questions = Append(@, newQ)]
    /\ nextId' = nextId + 1
    /\ alertMsg' = ""
    /\ UNCHANGED <<activeTab, step, isLoading, savedPersonas,
                   activeParticipants, editingPersonaId, editForm, responses,
                   simulationProgress, analysis, runs, genPending,
                   savedTemplates, isSaveModalOpen, isLoadModalOpen,
                   templateNameInput,
                   localStorage, mounted>>

addQuestion(type) ==
    /\ SurveyBuilderShown
    /\ nextId < MaxIds
    /\ LET newQ == [id |-> NewQuestionId, text |-> "", type |-> type,
                    hasOptions |-> type = "MULTIPLE_CHOICE", ownOptions |-> TRUE,
                    options |-> IF type = "MULTIPLE_CHOICE"
                                THEN <<OptionLabel(1), OptionLabel(2)>> ELSE <<>>]
       IN  survey' = [survey EXCEPT !.questions = Append(@, newQ)]
    /\ nextId' = nextId + 1
    /\ alertMsg' = ""
    /\ UNCHANGED <<activeTab, step, isLoading, savedPersonas,
                   activeParticipants, editingPersonaId, editForm, responses,
                   simulationProgress, analysis, runs, genPending,
                   savedTemplates, isSaveModalOpen, isLoadModalOpen,
                   templateNameInput,
                   localStorage, mounted>>

\* { ...q, [field]: value } for the fields the builder sets.
WithField(q, field, value) ==
    IF field = "text" THEN [q EXCEPT !.text = value]
    ELSE [q EXCEPT !.hasOptions = TRUE, !.ownOptions = TRUE, !.options = value]

\* Mutant: the question object is changed in place and the templates hold
\* the same object.
updateQuestion_InPlace(id, field, value) ==
    /\ SurveyBuilderShown
    /\ survey' = [survey EXCEPT !.questions =
                      [k \in 1..Len(@) |->
                          IF @[k].id = id THEN WithField(@[k], field, value) ELSE @[k]]]
    /\ savedTemplates' =
           [t \in 1..Len(savedTemplates) |->
               [savedTemplates[t] EXCEPT !.survey.questions =
                   [k \in 1..Len(@) |->
                       IF @[k].id = id THEN WithField(@[k], field, value) ELSE @[k]]]]
    /\ alertMsg' = ""
    /\ UNCHANGED <<activeTab, step, isLoading, savedPersonas,
                   activeParticipants, editingPersonaId, editForm, responses,
                   simulationProgress, analysis, runs, genPending, nextId,
                   isSaveModalOpen, isLoadModalOpen, templateNameInput,
                   localStorage, mounted>>

\* A survey is a value: every handler builds new objects ({...prev, ...},
\* {...q, [field]: value}, [...q.options], map, filter) and none assigns to
\* a field or an element of an object the state holds.
updateQuestion(id, field, value) ==
    /\ SurveyBuilderShown
    /\ survey' = [survey EXCEPT !.questions =
                      [k \in 1..Len(@) |->
                          IF @[k].id = id THEN WithField(@[k], field, value) ELSE @[k]]]
    /\ alertMsg' = ""
    /\ UNCHANGED <<activeTab, step, isLoading, savedPersonas,
                   activeParticipants, editingPersonaId, editForm, responses,
                   simulationProgress, analysis, runs, genPending, nextId,
                   savedTemplates, isSaveModalOpen, isLoadModalOpen,
                   templateNameInput,
                   localStorage, mounted>>

\* onChange of the text input of question k.
QuestionTextInput(k, value) ==
    /\ k <= Len(survey.questions)
    /\ value # survey.questions[k].text
    /\ updateQuestion(survey.questions[k].id, "text", value)

\* "+ Add Option" of question k, shown for a choice that has options.
AddOption(k) ==
    /\ k <= Len(survey.questions)
    /\ LET q == survey.questions[k]
       IN  /\ q.type = "MULTIPLE_CHOICE" /\ q.hasOptions
           /\ Len(q.options) < MaxOptions
           /\ updateQuestion(q.id, "options",
                             Append(q.options, OptionLabel(Len(q.options) + 1)))

\* updateOption(qId, optIndex, val); optIndex counts from 0.
updateOption(qId, optIndex, val) ==
    /\ SurveyBuilderShown
    /\ \E k \in 1..Len(survey.questions) :
           /\ survey.questions[k].id = qId
           /\ survey.questions[k].type = "MULTIPLE_CHOICE" /\ survey.questions[k].hasOptions
           /\ optIndex < Len(survey.questions[k].options)
           /\ survey.questions[k].options[optIndex + 1] # val
    /\ survey' = [survey EXCEPT !.questions =
                      [k \in 1..Len(@) |->
                          IF @[k].id # qId \/ ~@[k].hasOptions THEN @[k]
                          ELSE [@[k] EXCEPT !.options[optIndex + 1] = val]]]
    /\ alertMsg' = ""
    /\ UNCHANGED <<activeTab, step, isLoading, savedPersonas,
                   activeParticipants, editingPersonaId, editForm, responses,
                   simulationProgress, analysis, runs, genPending, nextId,
                   savedTemplates, isSaveModalOpen, isLoadModalOpen,
                   templateNameInput,
                   localStorage, mounted>>

\* onChange of the "Survey Title" input.
setSurveyTitle(value) ==
    /\ SurveyBuilderShown
    /\ value # survey.title
    /\ survey' = [survey EXCEPT !.title = value]
    /\ alertMsg' = ""
    /\ UNCHANGED <<activeTab, step, isLoading, savedPersonas,
                   activeParticipants, editingPersonaId, editForm, responses,
                   simulationProgress, analysis, runs, genPending, nextId,
                   savedTemplates, isSaveModalOpen, isLoadModalOpen,
                   templateNameInput, localStorage, mounted>>

\* onChange of the "Context / Objective" input.
setSurveyDescription(value) ==
    /\ SurveyBuilderShown
    /\ value # survey.description
    /\ survey' = [survey EXCEPT !.description = value]
    /\ alertMsg' = ""
    /\ UNCHANGED <<activeTab, step, isLoading, savedPersonas,
                   activeParticipants, editingPersonaId, editForm, responses,
                   simulationProgress, analysis, runs, genPending, nextId,
                   savedTemplates, isSaveModalOpen, isLoadModalOpen,
                   templateNameInput, localStorage, mounted>>

\* "Reset Form"; confirmed is the answer to window.confirm.
resetSurveyForm(confirmed) ==
    /\ SurveyBuilderShown
    /\ IF confirmed
       THEN survey' = [title |-> "Untitled Survey", description |-> "", questions |-> <<>>]
       ELSE UNCHANGED survey
    /\ alertMsg' = ""
    /\ UNCHANGED <<activeTab, step, isLoading, savedPersonas,
                   activeParticipants, editingPersonaId, editForm, responses,
                   simulationProgress, analysis, runs, genPending, nextId,
                   savedTemplates, isSaveModalOpen, isLoadModalOpen,
                   templateNameInput,
                   localStorage, mounted>>

\* --------------------------------------------------------------- templates
BlankNameMsg == "Please enter a name for the template."

\* name.trim() is empty
IsBlank(name) == name \in {"", " "}

\* saveTemplatesToStorage(newTemplates)
saveTemplatesToStorage(newTemplates) ==
    /\ savedTemplates' = newTemplates
    /\ localStorage' = [localStorage EXCEPT !.templates = TemplatesText(newTemplates)]

\* "Load Template"
openLoadTemplateModal ==
    /\ SurveyBuilderShown
    /\ ~isLoadModalOpen
    /\ isLoadModalOpen' = TRUE
    /\ alertMsg' = ""
    /\ UNCHANGED <<activeTab, step, isLoading, savedPersonas, survey,
                   activeParticipants, editingPersonaId, editForm, responses,
                   simulationProgress, analysis, runs, genPending, nextId,
                   savedTemplates, isSaveModalOpen, templateNameInput,
                   localStorage, mounted>>

\* "Save Template"
openSaveTemplateModal ==
    /\ SurveyBuilderShown
    /\ ~isSaveModalOpen
    /\ templateNameInput' = survey.title
    /\ isSaveModalOpen' = TRUE
    /\ alertMsg' = ""
    /\ UNCHANGED <<activeTab, step, isLoading, savedPersonas, survey,
                   activeParticipants, editingPersonaId, editForm, responses,
                   simulationProgress, analysis, runs, genPending, nextId,
                   savedTemplates, isLoadModalOpen,
                   localStorage, mounted>>

\* onChange of the name input of the save modal
setTemplateNameInput(name) ==
    /\ isSaveModalOpen
    /\ name # templateNameInput
    /\ templateNameInput' = name
    /\ alertMsg' = ""
    /\ UNCHANGED <<activeTab, step, isLoading, savedPersonas, survey,
                   activeParticipants, editingPersonaId, editForm, responses,
                   simulationProgress, analysis, runs, genPending, nextId,
                   savedTemplates, isSaveModalOpen, isLoadModalOpen,
                   localStorage, mounted>>

\* The X and Cancel buttons of the save modal.
closeSaveModal ==
    /\ isSaveModalOpen
    /\ isSaveModalOpen' = FALSE
    /\ alertMsg' = ""
    /\ UNCHANGED <<activeTab, step, isLoading, savedPersonas, survey,
                   activeParticipants, editingPersonaId, editForm, responses,
                   simulationProgress, analysis, runs, genPending, nextId,
                   savedTemplates, isLoadModalOpen, templateNameInput,
                   localStorage, mounted>>

\* The X button of the load modal.
closeLoadModal ==
    /\ isLoadModalOpen
    /\ isLoadModalOpen' = FALSE
    /\ alertMsg' = ""
    /\ UNCHANGED <<activeTab, step, isLoading, savedPersonas, survey,
                   activeParticipants, editingPersonaId, editForm, responses,
                   simulationProgress, analysis, runs, genPending, nextId,
                   savedTemplates, isSaveModalOpen, templateNameInput,
                   localStorage, mounted>>

\* The template records keep id, name and survey; createdAt is only shown.
saveTemplate ==
    /\ isSaveModalOpen
    /\ IF IsBlank(templateNameInput)
       THEN /\ alertMsg' = BlankNameMsg
            /\ UNCHANGED <<savedTemplates, localStorage, isSaveModalOpen, nextId>>
       ELSE /\ nextId < MaxIds
            /\ LET newTemplate == [id |-> generateId(1), name |-> templateNameInput,
                                   survey |-> JsonClone(survey)]
               IN  saveTemplatesToStorage(Append(savedTemplates, newTemplate))
            /\ nextId' = nextId + 1
            /\ isSaveModalOpen' = FALSE
            /\ alertMsg' = ""
    /\ UNCHANGED <<activeTab, step, isLoading, savedPersonas, survey,
                   activeParticipants, editingPersonaId, editForm, responses,
                   simulationProgress, analysis, runs, genPending,
                   isLoadModalOpen, templateNameInput,
                   mounted>>

\* "Load" of a template of the load modal.
loadTemplate(template, confirmed) ==
    /\ isLoadModalOpen
    /\ \E k \in 1..Len(savedTemplates) : savedTemplates[k] = template
    /\ IF confirmed
       THEN /\ survey' = JsonClone(template.survey)
            /\ isLoadModalOpen' = FALSE
       ELSE UNCHANGED <<survey, isLoadModalOpen>>
    /\ alertMsg' = ""
    /\ UNCHANGED <<activeTab, step, isLoading, savedPersonas,
                   activeParticipants, editingPersonaId, editForm, responses,
                   simulationProgress, analysis, runs, genPending, nextId,
                   savedTemplates, isSaveModalOpen, templateNameInput,
                   localStorage, mounted>>

deleteTemplate(id, confirmed) ==
    /\ isLoadModalOpen
    /\ \E k \in 1..Len(savedTemplates) : savedTemplates[k].id = id
    /\ IF confirmed
       THEN saveTemplatesToStorage(SelectSeq(savedTemplates, LAMBDA t : t.id # id))
       ELSE UNCHANGED <<savedTemplates, localStorage>>
    /\ alertMsg' = ""
    /\ UNCHANGED <<activeTab, step, isLoading, savedPersonas, survey,
                   activeParticipants, editingPersonaId, editForm, responses,
                   simulationProgress, analysis, runs, genPending, nextId,
                   isSaveModalOpen, isLoadModalOpen, templateNameInput,
                   mounted>>

\* -------------------------------------------------------------- tabulation
\* renderResults, "Quantitative Charts": dataMap of one question that is not
\* OPEN_ENDED.  Keys are strings; a number answer is counted under its
\* toString().  dataMap is an object literal, so next to the properties it
\* is given it has the ones it inherits from Object.prototype: a read of
\* such a key is not undefined, and an assignment to __proto__ of a value
\* that is not an object is ignored.
ObjectPrototypeKeys ==
    {<<"constructor">>, <<"__proto__">>, <<"toString">>, <<"toLocaleString">>,
     <<"valueOf">>, <<"hasOwnProperty">>, <<"isPrototypeOf">>,
     <<"propertyIsEnumerable">>}

\* The count NaN that ++ computes from a value that is not a number.
NaNCount == -1

\* dataMap[key] = value
SetProperty(dataMap, key, value) ==
    IF key = <<"__proto__">> THEN dataMap
    ELSE [k \in DOMAIN dataMap \cup {key} |-> IF k = key THEN value ELSE dataMap[k]]

RECURSIVE SeedOptions(_, _)
\* q.options.forEach(o => dataMap[o] = 0)
SeedOptions(dataMap, options) ==
    IF options = <<>> THEN dataMap
    ELSE SeedOptions(SetProperty(dataMap, Head(options), 0), Tail(options))

SeedDataMap(q) ==
    IF q.type = "RATING_SCALE"
    THEN [key \in {NumToString(n) : n \in 1..5} |-> 0]
    ELSE IF q.type = "MULTIPLE_CHOICE" /\ q.hasOptions
    THEN SeedOptions([key \in {} |-> 0], q.options)
    ELSE [key \in {} |-> 0]

\* r.answers.find(a => a.questionId === q.id): index of the first, 0 if none.
FindAnswer(answers, qid) ==
    IF \E k \in 1..Len(answers) : answers[k].questionId = qid
    THEN CHOOSE k \in 1..Len(answers) :
            answers[k].questionId = qid /\ \A j \in 1..(k - 1) : answers[j].questionId # qid
    ELSE 0

\* if (dataMap[val] !== undefined) dataMap[val]++; else dataMap[val] = 1;
CountAnswer(dataMap, val) ==
    IF val \in DOMAIN dataMap
    THEN [dataMap EXCEPT ![val] = IF @ = NaNCount THEN NaNCount ELSE @ + 1]
    ELSE IF val \in ObjectPrototypeKeys
    THEN SetProperty(dataMap, val, NaNCount)
    ELSE SetProperty(dataMap, val, 1)

RECURSIVE CountResponses(_, _, _)
CountResponses(dataMap, rs, qid) ==
    IF rs = <<>> THEN dataMap
    ELSE LET k == FindAnswer(Head(rs).answers, qid)
         IN  CountResponses(
                 IF k = 0 THEN dataMap
                 ELSE CountAnswer(dataMap, AnswerToString(Head(rs).answers[k].answer)),
                 Tail(rs), qid)

Tabulate(q, rs) == CountResponses(SeedDataMap(q), rs, q.id)

\* ------------------------------------------------------------ specification
\* The pipeline: navigation, the panel and the library, generation, the
\* simulation run, the analysis and the reset.  Personas keep the content
\* they were generated with.
Personas == {Persona(id, name) : id \in 1..MaxIds, name \in PersonaNames}

Next ==
    \/ \E tab \in {"SURVEY", "LIBRARY"} : setActiveTab(tab)
    \/ NextDefineAudience
    \/ \E id \in {"q1", "q2"} : removeQuestion(id)
    \/ \E descBlank \in BOOLEAN : handleGeneratePersonas(descBlank)
    \/ \E outcome \in GenOutcomes : GeneratePersonasReturns(outcome)
    \/ \E p \in Personas : addToLibrary(p)
    \/ \E p \in Personas : removeFromLibrary(p)
    \/ \E p \in Personas : importFromLibrary(p)
    \/ \E p \in Personas : deleteActivePersona(p)
    \/ runSimulation
    \/ \E r \in RunIds : \E outcome \in SimOutcomes(runs[r].survey) : SimulationReturns(r, outcome)
    \/ \E r \in RunIds, outcome \in AnalysisOutcomes : AnalysisReturns(r, outcome)
    \/ StartNewSurvey

Spec == Init /\ [][Next]_vars

\* The panel, the library and the edit form, with the content of a persona
\* editable; no run is started.
NextEditing ==
    \/ \E tab \in {"SURVEY", "LIBRARY"} : setActiveTab(tab)
    \/ NextDefineAudience
    \/ \E descBlank \in BOOLEAN : handleGeneratePersonas(descBlank)
    \/ \E outcome \in GenOutcomes : GeneratePersonasReturns(outcome)
    \/ \E p \in Personas : addToLibrary(p)
    \/ \E p \in Personas : removeFromLibrary(p)
    \/ \E p \in Personas : importFromLibrary(p)
    \/ \E p \in Personas, isLibrary \in BOOLEAN : startEditing(p, isLibrary)
    \/ \E name \in PersonaNames : setEditForm(name)
    \/ \E isLibrary \in BOOLEAN : saveEdit(isLibrary)
    \/ cancelEdit
    \/ \E p \in Personas : deleteActivePersona(p)

SpecEditing == Init /\ [][NextEditing]_vars

\* The answers of a run: a run over a panel of two personas is in flight, on
\* a survey of one question, and the service returns any list of answers of
\* up to MaxAnswers entries, for the question or for an identifier the survey
\* does not have, with texts that are or are not what the question asks for.
MaxAnswers == 2

\* Texts returned for a rating: "4", "7", "x", "4x" and "-2".
RatingTexts == {<<"4">>, <<"7">>, <<"x">>, <<"4", "x">>, <<"-", "2">>}

\* Texts returned for a choice.  A text that is only compared, never read
\* character by character, is written as one element.
ChoiceTexts == {<<"A">>, <<"C">>, <<"constructor">>, <<"__proto__">>}

AnswerTextsFor(q) ==
    IF q.type = "RATING_SCALE" THEN RatingTexts
    ELSE IF q.type = "MULTIPLE_CHOICE" THEN ChoiceTexts
    ELSE {<<"x">>}

\* A question identifier no survey has.
UnknownQuestionId == "q9"

\* The entries parsed.answers is made of: an answer to a question of the
\* survey or, on a survey with an open-ended question, an answer to a
\* question the survey does not have.
AnswerEntries(sv) ==
    UNION {{[questionId |-> sv.questions[k].id, answer |-> a] :
               a \in AnswerTextsFor(sv.questions[k])} : k \in 1..Len(sv.questions)}
    \cup {[questionId |-> UnknownQuestionId, answer |-> <<"4">>] :
             k \in {j \in 1..Len(sv.questions) : sv.questions[j].type = "OPEN_ENDED"}}

RECURSIVE SeqsUpTo(_, _)
\* The sequences over S of length at most n.
SeqsUpTo(S, n) ==
    IF n = 0 THEN {<<>>}
    ELSE LET shorter == SeqsUpTo(S, n - 1)
         IN  shorter \cup {Append(t, e) : t \in {u \in shorter : Len(u) = n - 1}, e \in S}

AnswerOutcomes(sv) ==
    {[kind |-> k, answers |-> <<>>] : k \in FailureKinds}
    \cup {[kind |-> "ok", answers |-> a] : a \in SeqsUpTo(AnswerEntries(sv), MaxAnswers)}

AnswerSurveys ==
    {[InitialSurvey EXCEPT !.questions = <<q>>] :
        q \in {Question("q1", "RATING_SCALE", FALSE, <<>>),
               Question("q1", "MULTIPLE_CHOICE", TRUE, <<<<"A">>, <<"B">>>>),
               Question("q1", "MULTIPLE_CHOICE", TRUE, <<<<"A">>, <<"__proto__">>>>),
               Question("q1", "OPEN_ENDED", FALSE, <<>>)}}

AnswerPanel == <<Persona(1, "gen"), Persona(2, "gen")>>

\* The state runSimulation leaves when it is started on AnswerPanel.
InitAnswers ==
    /\ activeTab = "SURVEY"
    /\ step = "SIMULATION"
    /\ isLoading = FALSE
    /\ savedPersonas = <<>>
    /\ survey \in AnswerSurveys
    /\ activeParticipants = AnswerPanel
    /\ editingPersonaId = NullId
    /\ editForm = NullPersona
    /\ responses = <<>>
    /\ simulationProgress = ZeroPercent
    /\ analysis = "null"
    /\ alertMsg = ""
    /\ runs = [r \in RunIds |->
                 IF r = 1
                 THEN [pc |-> "simCall", i |-> 0, panel |-> AnswerPanel, survey |-> survey,
                       newResponses |-> <<>>,
                       log |-> <<CallIssued("simulate", PersonaAt(AnswerPanel, 0).id)>>,
                       progress |-> <<>>]
                 ELSE IdleRun]
    /\ genPending = 0
    /\ nextId = Len(AnswerPanel)
    /\ savedTemplates = <<>>
    /\ isSaveModalOpen = FALSE
    /\ isLoadModalOpen = FALSE
    /\ templateNameInput = ""
    /\ localStorage = [library |-> NoItem, templates |-> NoItem]
    /\ mounted = TRUE

NextAnswers ==
    \/ \E r \in RunIds : \E outcome \in AnswerOutcomes(runs[r].survey) : SimulationReturns(r, outcome)
    \/ \E r \in RunIds, outcome \in AnalysisOutcomes : AnalysisReturns(r, outcome)
    \/ StartNewSurvey

SpecAnswers == InitAnswers /\ [][NextAnswers]_vars

\* The survey builder and the templates: questions are added, filled in and
\* removed, the form is reset, and the survey is saved as a template and
\* loaded from one.  The operator types a text into a question that has
\* none, changes the first option of a choice, and works with the pointer:
\* the page under the overlay of an open modal is not clicked.
QuestionTextInputs == {"edited"}
OptionInputs == {<<"A">>}
TemplateNameInputs == {""}
QuestionTypes == {"OPEN_ENDED", "MULTIPLE_CHOICE", "RATING_SCALE"}
QuestionIdsShown == {survey.questions[k].id : k \in 1..Len(survey.questions)}
EmptyTextShown == {k \in 1..Len(survey.questions) : survey.questions[k].text = ""}
TemplatesShown == {savedTemplates[k] : k \in 1..Len(savedTemplates)}
ModalOpen == isSaveModalOpen \/ isLoadModalOpen

NextSurvey ==
    \/ ~ModalOpen /\ \E type \in QuestionTypes : addQuestion(type)
    \/ ~ModalOpen /\ \E id \in QuestionIdsShown : removeQuestion(id)
    \/ ~ModalOpen /\ \E k \in EmptyTextShown, value \in QuestionTextInputs : QuestionTextInput(k, value)
    \/ ~ModalOpen /\ \E k \in 1..Len(survey.questions) : AddOption(k)
    \/ ~ModalOpen /\ \E id \in QuestionIdsShown, val \in OptionInputs : updateOption(id, 0, val)
    \/ ~ModalOpen /\ \E confirmed \in BOOLEAN : resetSurveyForm(confirmed)
    \/ ~ModalOpen /\ openLoadTemplateModal
    \/ ~ModalOpen /\ openSaveTemplateModal
    \/ \E name \in TemplateNameInputs : setTemplateNameInput(name)
    \/ closeSaveModal
    \/ closeLoadModal
    \/ saveTemplate
    \/ \E template \in TemplatesShown, confirmed \in BOOLEAN : loadTemplate(template, confirmed)
    \/ \E template \in TemplatesShown, confirmed \in BOOLEAN : deleteTemplate(template.id, confirmed)

SpecSurvey == Init /\ [][NextSurvey]_vars

\* The survey against its templates: the title, the description, the text
\* of a question and the first option of a choice are edited, and the
\* survey is saved as a template and loaded from one, in any order.
SurveyTitleInputs == {"Edited title"}
SurveyDescriptionInputs == {"Edited description"}

NextSnapshot ==
    \/ ~ModalOpen /\ addQuestion("MULTIPLE_CHOICE")
    \/ ~ModalOpen /\ \E value \in SurveyTitleInputs : setSurveyTitle(value)
    \/ ~ModalOpen /\ \E value \in SurveyDescriptionInputs : setSurveyDescription(value)
    \/ ~ModalOpen /\ \E k \in EmptyTextShown, value \in QuestionTextInputs : QuestionTextInput(k, value)
    \/ ~ModalOpen /\ \E id \in QuestionIdsShown, val \in OptionInputs : updateOption(id, 0, val)
    \/ ~ModalOpen /\ openLoadTemplateModal
    \/ ~ModalOpen /\ openSaveTemplateModal
    \/ closeSaveModal
    \/ closeLoadModal
    \/ saveTemplate
    \/ \E template \in TemplatesShown, confirmed \in BOOLEAN : loadTemplate(template, confirmed)
    \/ \E template \in TemplatesShown, confirmed \in BOOLEAN : deleteTemplate(template.id, confirmed)

SpecSnapshot == Init /\ [][NextSnapshot]_vars

\* A run after a run: the state is the one a completed run leaves, with the
\* results on display, a persona of the panel saved to the library and the
\* survey saved as a template; the results are reset, the panel and the
\* survey may be changed, and a run is started again.
EarlierResponses ==
    [k \in 1..Len(AnswerPanel) |->
        simulateSurveyResponse(AnswerPanel[k], InitialSurvey,
            CHOOSE o \in SimOutcomes(InitialSurvey) : o.kind = "ok").resp]

InitRerun ==
    /\ activeTab = "SURVEY"
    /\ step = "RESULTS"
    /\ isLoading = FALSE
    /\ savedPersonas = <<AnswerPanel[1]>>
    /\ survey = InitialSurvey
    /\ activeParticipants = AnswerPanel
    /\ editingPersonaId = NullId
    /\ editForm = NullPersona
    /\ responses = EarlierResponses
    /\ simulationProgress = Percent(Len(AnswerPanel), Len(AnswerPanel))
    /\ analysis = "report"
    /\ alertMsg = ""
    /\ runs = [r \in RunIds |-> IdleRun]
    /\ genPending = 0
    /\ nextId = Len(AnswerPanel) + 1
    /\ savedTemplates = <<[id |-> Len(AnswerPanel) + 1, name |-> "tpl",
                           survey |-> JsonClone(InitialSurvey)]>>
    /\ isSaveModalOpen = FALSE
    /\ isLoadModalOpen = FALSE
    /\ templateNameInput = "tpl"
    /\ localStorage = [library |-> LibraryText(savedPersonas),
                       templates |-> TemplatesText(savedTemplates)]
    /\ mounted = TRUE

NextRerun ==
    \/ \E tab \in {"SURVEY", "LIBRARY"} : setActiveTab(tab)
    \/ NextDefineAudience
    \/ \E id \in {"q1", "q2"} : removeQuestion(id)
    \/ \E p \in Personas : addToLibrary(p)
    \/ \E p \in Personas : removeFromLibrary(p)
    \/ \E p \in Personas : importFromLibrary(p)
    \/ \E p \in Personas : deleteActivePersona(p)
    \/ runSimulation
    \/ \E r \in RunIds : \E outcome \in SimOutcomes(runs[r].survey) : SimulationReturns(r, outcome)
    \/ \E r \in RunIds, outcome \in AnalysisOutcomes : AnalysisReturns(r, outcome)
    \/ StartNewSurvey

SpecRerun == InitRerun /\ [][NextRerun]_vars

\* The same with the service answering: a call that was issued returns in
\* the end, with a result or with a failure.
CallsReturn ==
    /\ \A r \in RunIds :
           WF_vars(\E outcome \in SimOutcomes(runs[r].survey) : SimulationReturns(r, outcome))
    /\ \A r \in RunIds :
           WF_vars(\E outcome \in AnalysisOutcomes : AnalysisReturns(r, outcome))

SpecRerunFair == SpecRerun /\ CallsReturn

\* The handler called without its button: on the persona view runSimulation
\* is called whether the panel holds a persona or not (the button that
\* calls it is rendered only for a panel that is not empty).
NextHandler ==
    \/ \E tab \in {"SURVEY", "LIBRARY"} : setActiveTab(tab)
    \/ NextDefineAudience
    \/ \E p \in Personas : importFromLibrary(p)
    \/ \E p \in Personas : deleteActivePersona(p)
    \/ \E p \in Personas : addToLibrary(p)
    \/ \E p \in Personas : removeFromLibrary(p)
    \/ PersonaBuilderShown /\ runSimulationCalled
    \/ \E r \in RunIds : \E outcome \in SimOutcomes(runs[r].survey) : SimulationReturns(r, outcome)
    \/ \E r \in RunIds, outcome \in AnalysisOutcomes : AnalysisReturns(r, outcome)
    \/ StartNewSurvey

SpecHandler == InitRerun /\ [][NextHandler]_vars

\* The startup: the page is opened on a browser whose storage holds, for
\* each of the two items, nothing, the empty text, a text that is not JSON,
\* or the list an earlier session wrote; the effect of the first render
\* runs before any event is handled, and the library, the panel and the
\* templates are then used.
StoredLibraries == {<<>>, <<Persona(1, "edit")>>}

StoredTemplates ==
    {<<>>, <<[id |-> 1, name |-> "tpl", survey |-> JsonClone(InitialSurvey)]>>}

StoredStates ==
    [library : {NoItem, EmptyText, CorruptText} \cup {LibraryText(l) : l \in StoredLibraries},
     templates : {NoItem, EmptyText, CorruptText} \cup {TemplatesText(t) : t \in StoredTemplates}]

InitStartup ==
    /\ activeTab = "SURVEY"
    /\ step = "SETUP"
    /\ isLoading = FALSE
    /\ savedPersonas = <<>>
    /\ survey = InitialSurvey
    /\ activeParticipants = <<>>
    /\ editingPersonaId = NullId
    /\ editForm = NullPersona
    /\ responses = <<>>
    /\ simulationProgress = ZeroPercent
    /\ analysis = "null"
    /\ alertMsg = ""
    /\ runs = [r \in RunIds |-> IdleRun]
    /\ genPending = 0
    /\ nextId = 1
    /\ savedTemplates = <<>>
    /\ isSaveModalOpen = FALSE
    /\ isLoadModalOpen = FALSE
    /\ templateNameInput = ""
    /\ localStorage \in StoredStates
    /\ mounted = FALSE

NextStartup ==
    \/ useEffect
    \/ mounted /\ ~ModalOpen /\ \E tab \in {"SURVEY", "LIBRARY"} : setActiveTab(tab)
    \/ mounted /\ ~ModalOpen /\ NextDefineAudience
    \/ mounted /\ \E p \in Personas : importFromLibrary(p)
    \/ mounted /\ \E p \in Personas : addToLibrary(p)
    \/ mounted /\ \E p \in Personas : removeFromLibrary(p)
    \/ mounted /\ \E p \in Personas : deleteActivePersona(p)
    \/ mounted /\ ~ModalOpen /\ openLoadTemplateModal
    \/ mounted /\ closeLoadModal
    \/ mounted /\ \E template \in TemplatesShown, confirmed \in BOOLEAN : loadTemplate(template, confirmed)
    \/ mounted /\ \E template \in TemplatesShown, confirmed \in BOOLEAN : deleteTemplate(template.id, confirmed)

SpecStartup == InitStartup /\ [][NextStartup]_vars

\* The panel under a run: the page was opened on a library an earlier
\* session saved; personas are generated, imported, edited and deleted, and
\* runs are started, analysed and reset.
InitPanel ==
    /\ activeTab = "SURVEY"
    /\ step = "SETUP"
    /\ isLoading = FALSE
    /\ savedPersonas = <<Persona(1, "gen")>>
    /\ survey = InitialSurvey
    /\ activeParticipants = <<>>
    /\ editingPersonaId = NullId
    /\ editForm = NullPersona
    /\ responses = <<>>
    /\ simulationProgress = ZeroPercent
    /\ analysis = "null"
    /\ alertMsg = ""
    /\ runs = [r \in RunIds |-> IdleRun]
    /\ genPending = 0
    /\ nextId = 1
    /\ savedTemplates = <<>>
    /\ isSaveModalOpen = FALSE
    /\ isLoadModalOpen = FALSE
    /\ templateNameInput = ""
    /\ localStorage = [library |-> LibraryText(savedPersonas), templates |-> NoItem]
    /\ mounted = TRUE

NextPanel ==
    \/ \E tab \in {"SURVEY", "LIBRARY"} : setActiveTab(tab)
    \/ NextDefineAudience
    \/ \E descBlank \in BOOLEAN : handleGeneratePersonas(descBlank)
    \/ \E outcome \in GenOutcomes : GeneratePersonasReturns(outcome)
    \/ \E p \in Personas : importFromLibrary(p)
    \/ \E p \in Personas : startEditing(p, FALSE)
    \/ \E name \in PersonaNames : setEditForm(name)
    \/ saveEdit(FALSE)
    \/ \E p \in Personas : deleteActivePersona(p)
    \/ runSimulation
    \/ \E r \in RunIds : \E outcome \in SimOutcomes(runs[r].survey) : SimulationReturns(r, outcome)
    \/ \E r \in RunIds, outcome \in AnalysisOutcomes : AnalysisReturns(r, outcome)
    \/ StartNewSurvey

SpecPanel == InitPanel /\ [][NextPanel]_vars

\* ------------------------------------------------------------------ claims
ActiveRuns == {r \in RunIds : runs[r].pc # "idle"}

\* The simulation calls of a run, in the order they were issued.
SimLog(r) == SelectSeq(runs[r].log, LAMBDA e : e.kind = "simulate")

AnalyzeLog(r) == SelectSeq(runs[r].log, LAMBDA e : e.kind = "analyze")

OkCount(log) == Len(SelectSeq(log, LAMBDA e : e.outcome = "ok"))

FailedCount(log) == Len(SelectSeq(log, LAMBDA e : e.outcome = "failed"))

\* The loop of run r is over and its analysis call is in flight.
LoopDone(r) == runs[r].pc = "analyzeCall"

\* The state runSimulation leaves behind when its analysis call failed.
AfterAnalysisFailure == step = "SIMULATION" /\ ActiveRuns = {}

HundredPercent == <<100, 1>>

\* C1: at most one run is alive, and in every run only the call issued last
\* can be in flight: the call for persona i+1 is issued only when the call
\* for persona i has returned.
C1_OneCallInFlight ==
    /\ Cardinality(ActiveRuns) <= 1
    /\ \A r \in RunIds : \A k \in 1..Len(runs[r].log) :
           runs[r].log[k].outcome = "pending" => k = Len(runs[r].log)

C1_Witness ==
    \E r \in RunIds :
        /\ Len(runs[r].log) = 2
        /\ runs[r].log[1].kind = "simulate" /\ runs[r].log[1].outcome = "failed"
        /\ runs[r].log[2].kind = "simulate" /\ runs[r].log[2].outcome = "pending"

\* C2: when the loop of a run is over, the run holds exactly as many responses
\* as calls succeeded (K), and N - K personas failed without a response; with
\* K = 0 the response list is empty.
C2_ResponsesEqualSuccesses ==
    \A r \in RunIds :
        LoopDone(r) =>
            /\ Len(runs[r].newResponses) = OkCount(SimLog(r))
            /\ Len(responses) = OkCount(SimLog(r))
            /\ Len(runs[r].panel) - Len(responses) = FailedCount(SimLog(r))

\* C3: a failed call does not stop the loop (the persona after it is
\* attempted), and the response of every call that succeeded is in the
\* response list with the answers of that call.
C3_FailureLosesNothing ==
    \A r \in ActiveRuns :
        /\ \A k \in 1..Len(SimLog(r)) :
               (SimLog(r)[k].outcome = "failed" /\ k < Len(runs[r].panel))
                   => Len(SimLog(r)) > k
        /\ \A k \in 1..Len(SimLog(r)) :
               SimLog(r)[k].outcome = "ok" =>
                   \E j \in 1..Len(responses) :
                       /\ responses[j].personaId = SimLog(r)[k].personaId
                       /\ responses[j].answers =
                              [a \in 1..Len(SimLog(r)[k].answers) |->
                                  SanitizeAnswer(runs[r].survey, SimLog(r)[k].answers[a])]

C3_Witness ==
    \E r \in RunIds :
        /\ LoopDone(r)
        /\ Len(SimLog(r)) = 2
        /\ SimLog(r)[1].outcome = "ok"
        /\ SimLog(r)[1].answers # <<>>
        /\ SimLog(r)[2].outcome = "failed"

\* C4: a run over N personas makes one progress update per persona attempted,
\* the k-th equal to k/N of 100%, each larger than the one before, and the
\* last one, made when the loop is over, equal to 100%.
C4_Progress ==
    \A r \in ActiveRuns :
        LET run == runs[r]
            n == Len(run.panel)
            attempted == Len(SelectSeq(SimLog(r), LAMBDA e : e.outcome # "pending"))
        IN  /\ Len(run.progress) = attempted
            /\ \A k \in 1..Len(run.progress) :
                   run.progress[k][1] * n = k * 100 * run.progress[k][2]
            /\ \A k \in 1..(Len(run.progress) - 1) :
                   run.progress[k][1] * run.progress[k + 1][2]
                       < run.progress[k + 1][1] * run.progress[k][2]
            /\ attempted > 0 => simulationProgress = run.progress[attempted]
            /\ LoopDone(r) =>
                   /\ Len(run.progress) = n
                   /\ run.progress[n] = HundredPercent
                   /\ simulationProgress = HundredPercent

C4_Witness ==
    \E r \in RunIds :
        /\ LoopDone(r)
        /\ Len(runs[r].panel) = 2
        /\ SimLog(r)[1].outcome = "failed"
        /\ SimLog(r)[2].outcome = "ok"
        /\ Len(runs[r].progress) = 2

\* C5: one RATING_SCALE question, panel [A, B], A's call returns "5" and B's
\* call fails: the run holds one response (A, rating 5), one failure, progress
\* 100%, and the question tabulates to {1:0, 2:0, 3:0, 4:0, 5:1}.
C5_EndToEnd ==
    \A r \in RunIds :
        LET run == runs[r]
            q == run.survey.questions[1]
        IN  ( /\ LoopDone(r)
              /\ Len(run.survey.questions) = 1
              /\ q.type = "RATING_SCALE"
              /\ Len(run.panel) = 2
              /\ SimLog(r)[1].outcome = "ok"
              /\ SimLog(r)[1].answers = <<[questionId |-> q.id, answer |-> <<"5">>]>>
              /\ SimLog(r)[2].outcome = "failed" )
            => /\ responses = << [personaId |-> run.panel[1].id,
                                  answers |-> <<[questionId |-> q.id, answer |-> NumAns(5)]>>] >>
               /\ Len(run.panel) - Len(responses) = 1
               /\ simulationProgress = HundredPercent
               /\ Tabulate(q, responses) =
                      [key \in {<<"1">>, <<"2">>, <<"3">>, <<"4">>, <<"5">>} |->
                          IF key = <<"5">> THEN 1 ELSE 0]

C7_RetryEnabled ==
    AfterAnalysisFailure =>
        \/ ENABLED runSimulation
        \/ ENABLED (Next /\ step' # step)

\* C8: within a run the k-th simulation call is the call for the k-th persona
\* of the panel, so each persona is called exactly once, and the analysis is
\* called at most once, after the last persona; nothing is called again.
C8_NoAutomaticRetry ==
    \A r \in ActiveRuns :
        LET run == runs[r]
            n == Len(run.panel)
        IN  /\ Len(SimLog(r)) <= n
            /\ \A k \in 1..Len(SimLog(r)) : SimLog(r)[k].personaId = run.panel[k].id
            /\ \A k, j \in 1..Len(SimLog(r)) :
                   SimLog(r)[k].personaId = SimLog(r)[j].personaId => k = j
            /\ Len(AnalyzeLog(r)) <= 1
            /\ LoopDone(r) =>
                   /\ Len(SimLog(r)) = n
                   /\ Len(AnalyzeLog(r)) = 1
                   /\ run.log[Len(run.log)].kind = "analyze"

C8_Witness ==
    \E r \in RunIds :
        /\ LoopDone(r)
        /\ Len(SimLog(r)) = 2
        /\ SimLog(r)[1].outcome = "failed"
        /\ SimLog(r)[2].outcome = "failed"

\* C9: no step taken while a run is alive changes the active panel.
C9_PanelFrozenDuringRun ==
    [][ActiveRuns # {} => activeParticipants' = activeParticipants]_vars

\* C10: for each of the three calls, whatever the handler does when the
\* service returns no text is what it does when the service throws.
C10_NoTextLikeThrow ==
    [][ /\ GeneratePersonasReturns([kind |-> "notext", n |-> 0])
            => GeneratePersonasReturns([kind |-> "throw", n |-> 0])
        /\ \A r \in RunIds :
               SimulationReturns(r, [kind |-> "notext", answers |-> <<>>])
                   => SimulationReturns(r, [kind |-> "throw", answers |-> <<>>])
        /\ \A r \in RunIds :
               AnalysisReturns(r, [kind |-> "notext"])
                   => AnalysisReturns(r, [kind |-> "throw"])
      ]_vars

\* The text reads as the integer n: blanks, then n written out, then the end
\* of the text or a character that is not a digit.
ReadsAsInteger(text, n) ==
    \E b \in 0..Len(text) :
        /\ \A j \in 1..b : text[j] = " "
        /\ LET numeral == NumToString(n)
               e == b + Len(numeral)
           IN  /\ e <= Len(text)
               /\ SubSeq(text, b + 1, e) = numeral
               /\ e < Len(text) => ~IsDigit(text[e + 1])

\* The reference of the coercion: the answer to a RATING_SCALE question is
\* the integer its text reads as, 3 when it reads as none; any other answer
\* is the text itself.
CoercionReference(sv, entry) ==
    IF \E k \in 1..Len(sv.questions) :
           sv.questions[k].id = entry.questionId /\ sv.questions[k].type = "RATING_SCALE"
    THEN IF \E n \in -99..99 : ReadsAsInteger(entry.answer, n)
         THEN NumAns(CHOOSE n \in -99..99 : ReadsAsInteger(entry.answer, n))
         ELSE NumAns(3)
    ELSE StrAns(entry.answer)

C12_RatingInRange ==
    \A j \in 1..Len(responses) : \A a \in 1..Len(responses[j].answers) :
        LET k == FindQuestion(survey.questions, responses[j].answers[a].questionId)
        IN  (k # 0 /\ survey.questions[k].type = "RATING_SCALE") =>
                /\ responses[j].answers[a].answer.isNum
                /\ responses[j].answers[a].answer.num \in 1..5

\* The values a closed question declares: 1..5 for a rating, the options of a
\* choice; as the keys the frequency table uses.
DomainValues(q) ==
    IF q.type = "RATING_SCALE" THEN {NumToString(n) : n \in 1..5}
    ELSE IF q.type = "MULTIPLE_CHOICE" /\ q.hasOptions
    THEN {q.options[k] : k \in 1..Len(q.options)}
    ELSE {}

ClosedQuestions == {k \in 1..Len(survey.questions) : survey.questions[k].type # "OPEN_ENDED"}

\* The positions <<j, a>> of the answers to question qid in the responses.
ObservedAnswers(rs, qid) ==
    {<<j, a>> \in (1..Len(rs)) \X (1..MaxAnswers + 1) :
        a <= Len(rs[j].answers) /\ rs[j].answers[a].questionId = qid}

\* The responses without the answer at position a of response j.
WithoutAnswer(rs, j, a) ==
    [rs EXCEPT ![j].answers =
        [i \in 1..(Len(@) - 1) |-> IF i < a THEN @[i] ELSE @[i + 1]]]

RECURSIVE SumCounts(_, _)
SumCounts(t, keys) ==
    IF keys = {} THEN 0
    ELSE LET key == CHOOSE key \in keys : TRUE
         IN  t[key] + SumCounts(t, keys \ {key})

\* C13: the frequency table of every question that is not open-ended has a
\* bucket for every value the question declares (1..5, or each option), and
\* the table of a rating nobody answered is exactly 1..5 at count 0.
C13_TabulationComplete ==
    \A k \in ClosedQuestions :
        LET q == survey.questions[k]
            t == Tabulate(q, responses)
        IN  /\ \A v \in DomainValues(q) : v \in DOMAIN t
            /\ (q.type = "RATING_SCALE" /\ ObservedAnswers(responses, q.id) = {})
                   => t = [key \in {<<"1">>, <<"2">>, <<"3">>, <<"4">>, <<"5">>} |-> 0]

\* C14: every answer to a MULTIPLE_CHOICE question that is not one of its
\* declared options has a bucket of its own with count at least 1, and every
\* declared option has the count it has without that answer.
C14_TabulationTolerant ==
    \A k \in ClosedQuestions :
        LET q == survey.questions[k]
            t == Tabulate(q, responses)
        IN  q.type = "MULTIPLE_CHOICE" =>
                \A pos \in ObservedAnswers(responses, q.id) :
                    LET val == AnswerToString(responses[pos[1]].answers[pos[2]].answer)
                        without == Tabulate(q, WithoutAnswer(responses, pos[1], pos[2]))
                    IN  val \notin DomainValues(q) =>
                            /\ val \in DOMAIN t
                            /\ t[val] >= 1
                            /\ \A o \in DomainValues(q) :
                                   /\ o \in DOMAIN t <=> o \in DOMAIN without
                                   /\ o \in DOMAIN t => t[o] = without[o]

\* C15: the counts of the frequency table of a question add up to the number
\* of answers to that question in all the responses, also when one response
\* has more than one answer to it.
C15_TabulationDropsNothing ==
    \A k \in ClosedQuestions :
        LET q == survey.questions[k]
            t == Tabulate(q, responses)
        IN  /\ \A key \in DOMAIN t : t[key] # NaNCount
            /\ SumCounts(t, DOMAIN t) = Cardinality(ObservedAnswers(responses, q.id))

\* C16: a step that saves the edit form in one collection leaves the other
\* collection as it was, and starting, typing in or cancelling an edit
\* changes neither; a persona of the library changes only in a step that
\* saves the edit form on the library view, a persona of the panel only in
\* one that saves it on the panel view; also for a persona that is in both
\* collections because it was added to the library from the panel or
\* imported from it.
C16_EditIsolation ==
    [][ /\ saveEdit(TRUE) => activeParticipants' = activeParticipants
        /\ saveEdit(FALSE) => savedPersonas' = savedPersonas
        /\ ( \/ \E p \in Personas, isLibrary \in BOOLEAN : startEditing(p, isLibrary)
             \/ \E name \in PersonaNames : setEditForm(name)
             \/ cancelEdit )
               => /\ activeParticipants' = activeParticipants
                  /\ savedPersonas' = savedPersonas
        /\ \A k \in 1..Len(savedPersonas) : \A j \in 1..Len(savedPersonas') :
               (savedPersonas'[j].id = savedPersonas[k].id /\ savedPersonas'[j] # savedPersonas[k])
                   => /\ LibraryShown /\ editingPersonaId = savedPersonas[k].id
                      /\ savedPersonas'[j] = editForm
        /\ \A k \in 1..Len(activeParticipants) : \A j \in 1..Len(activeParticipants') :
               (activeParticipants'[j].id = activeParticipants[k].id
                    /\ activeParticipants'[j] # activeParticipants[k])
                   => /\ PersonaBuilderShown /\ editingPersonaId = activeParticipants[k].id
                      /\ activeParticipants'[j] = editForm
      ]_vars

\* Both personas are in both collections; the first was edited in the panel
\* only, the second in the library only.
C16_Witness ==
    /\ \E k \in 1..Len(activeParticipants) : activeParticipants[k] = Persona(1, "edit")
    /\ \E k \in 1..Len(savedPersonas) : savedPersonas[k] = Persona(1, "gen")
    /\ \E k \in 1..Len(activeParticipants) : activeParticipants[k] = Persona(2, "gen")
    /\ \E k \in 1..Len(savedPersonas) : savedPersonas[k] = Persona(2, "edit")

\* C17: no two personas of the panel have the same identifier, and no two
\* personas of the library have.
C17_PersonaIdsUnique ==
    /\ \A k, j \in 1..Len(activeParticipants) :
           activeParticipants[k].id = activeParticipants[j].id => k = j
    /\ \A k, j \in 1..Len(savedPersonas) :
           savedPersonas[k].id = savedPersonas[j].id => k = j

\* A persona deleted from the panel after it was saved and edited in the
\* library is imported again, next to a generated one.
C17_Witness ==
    /\ Len(activeParticipants) = 2
    /\ activeParticipants[2] = Persona(1, "edit")
    /\ \E k \in 1..Len(savedPersonas) : savedPersonas[k] = Persona(1, "edit")

\* Two surveys are equal field by field: title, description, and the
\* questions in order with id, text, type and options (undefined or the
\* same list).
SurveysEqual(a, b) ==
    /\ a.title = b.title
    /\ a.description = b.description
    /\ Len(a.questions) = Len(b.questions)
    /\ \A k \in 1..Len(a.questions) :
           /\ a.questions[k].id = b.questions[k].id
           /\ a.questions[k].text = b.questions[k].text
           /\ a.questions[k].type = b.questions[k].type
           /\ a.questions[k].hasOptions = b.questions[k].hasOptions
           /\ a.questions[k].hasOptions => a.questions[k].options = b.questions[k].options

\* C18: the template a save stores holds a survey equal field by field to
\* the current survey, and so is the survey a load of that template would
\* set; no later step changes the survey a stored template holds; and a
\* load sets the survey to one equal field by field to the template's.
C18_TemplateRoundTrip ==
    [][ /\ (saveTemplate /\ Len(savedTemplates') = Len(savedTemplates) + 1)
               => LET template == savedTemplates'[Len(savedTemplates')]
                  IN  /\ SurveysEqual(template.survey, survey)
                      /\ SurveysEqual(JsonClone(template.survey), survey)
        /\ \A k \in 1..Len(savedTemplates) : \A j \in 1..Len(savedTemplates') :
               savedTemplates'[j].id = savedTemplates[k].id
                   => savedTemplates'[j].survey = savedTemplates[k].survey
        /\ \A template \in TemplatesShown :
               loadTemplate(template, TRUE) => SurveysEqual(survey', template.survey)
      ]_vars

\* A template was loaded whose survey has a question that was added in the
\* builder: addQuestion gives a question that is not a choice the property
\* `options: undefined`, which only the JSON text of a template drops.
C18_Witness ==
    \E t \in 1..Len(savedTemplates) :
        /\ survey = savedTemplates[t].survey
        /\ \E k \in 1..Len(survey.questions) :
               /\ survey.questions[k].id \notin {"q1", "q2"}
               /\ survey.questions[k].type # "MULTIPLE_CHOICE"
               /\ ~survey.questions[k].ownOptions

\* A step of a run: its start, the return of a simulation call or the return
\* of the analysis call.
RunStep ==
    \/ runSimulation
    \/ \E r \in RunIds : \E outcome \in SimOutcomes(runs[r].survey) : SimulationReturns(r, outcome)
    \/ \E r \in RunIds, outcome \in AnalysisOutcomes : AnalysisReturns(r, outcome)

\* C19: the step that starts a run leaves the response list empty and no
\* AnalysisResult held, and while a run is alive the response list is
\* exactly the list of the responses that run has collected, so no response
\* of an earlier run is in it.
C19_EarlierResultsDiscarded ==
    [][ /\ (runSimulation /\ step' = "SIMULATION")
               => (responses' = <<>> /\ analysis' = "null")
        /\ \A r \in RunIds :
               runs'[r].pc # "idle" => responses' = runs'[r].newResponses
      ]_vars

\* A run started after the results of an earlier run has collected the
\* response of its first persona, which is not the panel's first persona of
\* the earlier run.
C19_Witness ==
    \E r \in ActiveRuns :
        /\ runs[r].panel = <<AnswerPanel[2]>>
        /\ Len(responses) = 1
        /\ responses[1].personaId = AnswerPanel[2].id
        /\ analysis = "null"

\* C20 as stated: a step of a run and the reset change nothing but the step,
\* the response list, the progress and the AnalysisResult.
C20_OnlyResultsChange ==
    [][ (RunStep \/ StartNewSurvey)
            => UNCHANGED <<activeTab, isLoading, savedPersonas, survey, activeParticipants,
                           editingPersonaId, editForm, savedTemplates, isSaveModalOpen,
                           isLoadModalOpen, templateNameInput>>
      ]_vars

\* C20 amended: a step of a run and the reset change nothing but the step,
\* the response list, the progress, the AnalysisResult and the loading
\* flag; the survey, the active panel, the library and the templates are
\* left as they were.
C20_OnlyResultsAndLoadingChange ==
    [][ (RunStep \/ StartNewSurvey)
            => UNCHANGED <<activeTab, savedPersonas, survey, activeParticipants,
                           editingPersonaId, editForm, savedTemplates, isSaveModalOpen,
                           isLoadModalOpen, templateNameInput>>
      ]_vars

\* The loop of a run is over: the run has set the loading flag for its
\* analysis call, and the survey, the panel, the library and the template
\* are there as before.
C20_Witness ==
    \E r \in RunIds :
        /\ LoopDone(r)
        /\ isLoading
        /\ survey = InitialSurvey
        /\ activeParticipants = AnswerPanel
        /\ savedPersonas # <<>>
        /\ savedTemplates # <<>>

RECURSIVE IsSubsequence(_, _)
\* s is t with some of its elements left out, the others in the same order.
IsSubsequence(s, t) ==
    IF s = <<>> THEN TRUE
    ELSE IF t = <<>> THEN FALSE
    ELSE IF Head(s) = Head(t) THEN IsSubsequence(Tail(s), Tail(t))
    ELSE IsSubsequence(s, Tail(t))

\* The personas of a run whose call has returned.
Attempted(r) == SubSeq(runs[r].panel, 1, runs[r].i)

\* C21: at every moment of a run the persona ids of the response list, in the
\* order of the list, are the ids of the panel with some left out: no id
\* occurs twice, the order is the order of the panel, and every id is the id
\* of a persona whose call has returned.  This holds of the panel the run
\* iterates and of the active panel on display.
C21_ResponsesInPanelOrder ==
    \A r \in ActiveRuns :
        /\ \A j, k \in 1..Len(responses) :
               responses[j].personaId = responses[k].personaId => j = k
        /\ IsSubsequence([j \in 1..Len(responses) |-> responses[j].personaId],
                         [j \in 1..Len(Attempted(r)) |-> Attempted(r)[j].id])
        /\ IsSubsequence([j \in 1..Len(responses) |-> responses[j].personaId],
                         [j \in 1..Len(activeParticipants) |-> activeParticipants[j].id])

C21_Witness ==
    \E r \in ActiveRuns :
        /\ Len(runs[r].panel) >= 2
        /\ Len(responses) = 2
        /\ responses[1].personaId = runs[r].panel[1].id
        /\ responses[2].personaId = runs[r].panel[2].id

\* C22: the effect of the first render treats an item that does not parse as
\* an empty one: the collection stays empty; the other collection is loaded
\* from its own item whatever happened to the first (the list an earlier
\* session wrote comes back, an absent, empty or unparsable item gives the
\* empty list); and the startup goes on: the effect ends, no dialog is
\* shown, and nothing else of the state is touched.
C22_StartupRead ==
    [][useEffect =>
          /\ ParseThrows(localStorage.library) => savedPersonas' = <<>>
          /\ ParseThrows(localStorage.templates) => savedTemplates' = <<>>
          /\ \A l \in StoredLibraries :
                 localStorage.library = LibraryText(l) => savedPersonas' = l
          /\ \A t \in StoredTemplates :
                 localStorage.templates = TemplatesText(t) => savedTemplates' = t
          /\ localStorage.library \in {NoItem, EmptyText} => savedPersonas' = <<>>
          /\ localStorage.templates \in {NoItem, EmptyText} => savedTemplates' = <<>>
          /\ mounted'
          /\ alertMsg' = ""
          /\ UNCHANGED <<activeTab, step, isLoading, survey, activeParticipants,
                         editingPersonaId, editForm, responses, simulationProgress,
                         analysis, runs, genPending, nextId, isSaveModalOpen,
                         isLoadModalOpen, templateNameInput, localStorage>>
    ]_vars

\* Both ways round: the library item does not parse and the templates are
\* loaded, or the templates item does not parse and the library is loaded.
C22_Witness ==
    /\ mounted
    /\ \/ ParseThrows(localStorage.library) /\ savedPersonas = <<>> /\ savedTemplates # <<>>
       \/ ParseThrows(localStorage.templates) /\ savedTemplates = <<>> /\ savedPersonas # <<>>

\* C23: in every reachable state the persona id of every response of the
\* response list is the id of a persona of the active panel.
C23_ResponsesReferToPanel ==
    \A j \in 1..Len(responses) : responses[j].personaId \in SeqIds(activeParticipants)

\* Results on display for a panel that holds an imported and a generated
\* persona, one of them edited before the run.
C23_Witness ==
    /\ step = "RESULTS"
    /\ Len(responses) = 2
    /\ \E k \in 1..Len(activeParticipants) :
           /\ activeParticipants[k].name = "edit"
           /\ \E j \in 1..Len(responses) : responses[j].personaId = activeParticipants[k].id

\* C24: in every reachable state every MULTIPLE_CHOICE question of the survey
\* has a list of options with at least one option in it, and every question
\* of another type has no list of options.
C24_OptionsMatchType ==
    \A k \in 1..Len(survey.questions) :
        LET q == survey.questions[k]
        IN  IF q.type = "MULTIPLE_CHOICE"
            THEN q.hasOptions /\ Len(q.options) >= 1
            ELSE ~q.hasOptions /\ q.options = <<>>

\* A choice that got a third option and a new first option, next to a
\* question of another type added in the builder.
C24_Witness ==
    \E k, j \in 1..Len(survey.questions) :
        /\ survey.questions[k].type = "MULTIPLE_CHOICE"
        /\ Len(survey.questions[k].options) = 3
        /\ survey.questions[k].options[1] = <<"A">>
        /\ survey.questions[j].type # "MULTIPLE_CHOICE"
        /\ survey.questions[j].id \notin {"q1", "q2"}

\* The end states of a run: the results on display, the analysis failure
\* reported, or the persona step with no response.
RunEndState ==
    \/ step = "RESULTS" /\ analysis # "null" /\ responses # <<>>
    \/ step = "SIMULATION" /\ alertMsg = AnalysisFailedMsg /\ analysis = "null"
    \/ step = "PERSONAS" /\ responses = <<>>

\* C25: when every call that is issued returns, a run that was started gets to
\* the end of its loop with every persona of its panel attempted, and it ends
\* in one of its end states.
C25_RunTerminates ==
    \A r \in RunIds :
        /\ (runs[r].pc = "simCall") ~>
               \/ runs[r].pc = "analyzeCall" /\ runs[r].i = Len(runs[r].panel)
               \/ runs[r].pc = "idle" /\ step = "PERSONAS" /\ responses = <<>>
        /\ (runs[r].pc # "idle") ~> (runs[r].pc = "idle" /\ RunEndState)

\* A run over the panel with one persona deleted has ended on the results.
C25_Witness ==
    /\ ActiveRuns = {}
    /\ step = "RESULTS"
    /\ Len(activeParticipants) = 1
    /\ Len(responses) = 1
    /\ simulationProgress = HundredPercent

C27_StepTransitions ==
    [][ /\ step' # step =>
               \/ step = "SETUP" /\ step' = "PERSONAS"
               \/ /\ step = "PERSONAS" /\ step' = "SIMULATION"
                  /\ Len(activeParticipants) > 0
                  /\ \E r \in RunIds : runs[r].pc = "idle" /\ runs'[r].pc = "simCall"
               \/ /\ step = "SIMULATION" /\ step' = "RESULTS"
                  /\ analysis' # "null"
                  /\ \E r \in RunIds : runs[r].pc = "analyzeCall" /\ runs'[r].pc = "idle"
               \/ /\ step = "SIMULATION" /\ step' = "PERSONAS"
                  /\ responses' = <<>>
                  /\ \E r \in RunIds : runs[r].pc = "simCall" /\ runs'[r].pc = "idle"
               \/ /\ step = "RESULTS" /\ step' = "SETUP"
                  /\ responses' = <<>> /\ analysis' = "null"
        /\ \A r \in RunIds :
               (runs[r].pc = "idle" /\ runs'[r].pc # "idle")
                   => (step = "PERSONAS" /\ step' = "SIMULATION")
      ]_vars

\* The second lap: the PERSONAS step, reached again after a run that was
\* completed and reset.
C27_Witness ==
    /\ step = "PERSONAS"
    /\ ActiveRuns = {}
    /\ simulationProgress = HundredPercent
    /\ responses = <<>>
    /\ analysis = "null"

\* C28: at most one generatePersonas request is in flight, and while one is
\* in flight the loading flag is true (so that the Generate button, disabled
\* while loading, cannot start a second one).
C28_OneGenerationInFlight ==
    /\ genPending <= 1
    /\ genPending > 0 => isLoading

\* C29: a template is a snapshot.  No step changes a template that stays in
\* the list; a step that changes the current survey (an edit of a question
\* or an option, an added or removed question, a reset, a load) leaves the
\* list of templates as it is; and a confirmed load sets the current survey
\* to the survey the template holds, so that loading the template again,
\* whatever was edited in between, gives the same survey.
C29_TemplateIsSnapshot ==
    [][ /\ \A k \in 1..Len(savedTemplates) :
               (\E j \in 1..Len(savedTemplates') :
                    savedTemplates'[j].id = savedTemplates[k].id)
                   => \E j \in 1..Len(savedTemplates') : savedTemplates'[j] = savedTemplates[k]
        /\ survey' # survey =>
               (savedTemplates' = savedTemplates /\ localStorage' = localStorage)
        /\ \A t \in TemplatesShown :
               loadTemplate(t, TRUE) => survey' = t.survey
      ]_vars

\* A question of the current survey was edited after the survey was saved
\* or loaded: the template still holds the question without the edit.
C29_Witness ==
    \E t \in 1..Len(savedTemplates) :
        \E k \in 1..Len(survey.questions), j \in 1..Len(savedTemplates[t].survey.questions) :
            /\ survey.questions[k].id = savedTemplates[t].survey.questions[j].id
            /\ survey.questions[k].text = "edited"
            /\ savedTemplates[t].survey.questions[j].text = ""
            /\ survey.title \in SurveyTitleInputs
            /\ savedTemplates[t].survey.title \notin SurveyTitleInputs

\* C30: runSimulation called with an empty panel shows the message that a
\* persona is needed and changes nothing: the step, the response list, the
\* progress and the AnalysisResult stay as they were, no call is issued and
\* no run is started, and the rest of the state is untouched.
C30_EmptyPanelRejected ==
    [][(Len(activeParticipants) = 0 /\ runSimulationCalled) =>
          /\ alertMsg' = NoPersonaMsg
          /\ UNCHANGED <<step, responses, simulationProgress, analysis>>
          /\ UNCHANGED <<runs, genPending, isLoading>>
          /\ UNCHANGED <<activeTab, savedPersonas, survey, activeParticipants,
                         editingPersonaId, editForm, nextId, savedTemplates,
                         isSaveModalOpen, isLoadModalOpen, templateNameInput,
                         localStorage, mounted>>
    ]_vars

\* The call was rejected on a panel emptied after a completed run: the
\* progress of that run is still there.
C30_Witness ==
    /\ alertMsg = NoPersonaMsg
    /\ activeParticipants = <<>>
    /\ step = "PERSONAS"
    /\ simulationProgress = HundredPercent
    /\ ActiveRuns = {}

====
